---------------------------- MODULE Spec2Model ----------------------------
(***************************************************************************)
(* State-machine model of the Smart Money signal engine of                 *)
(* src/analysis/smart_money.py: the four detectors (fair value gaps,       *)
(* order blocks, market structure, liquidity zones) and the aggregator     *)
(* (analyze, get_market_bias, filter_signals_by_strength,                  *)
(* get_confluence_signals).                                                *)
(*                                                                         *)
(* Numbers.  The program computes on floats.  The model computes on exact  *)
(* rationals <<n, d>> (d > 0, lowest terms); prices of candles are whole   *)
(* numbers of price units of 0.0001.  Rounding error of the floating-point *)
(* arithmetic is therefore not modelled.                                   *)
(***************************************************************************)
EXTENDS Integers, Sequences, FiniteSets, TLC

(***************************************************************************)
(* Bounds of the model.                                                    *)
(***************************************************************************)
\* longest signal list given to get_market_bias / filter_signals_by_strength
MaxBiasSignals == 3
\* longest signal list given to get_confluence_signals
MaxConfSignals == 4
\* the candles of a run and the runs of a frame
RunLen == 8
MaxRuns == 5
\* the runs of a frame that has a malformed datetime
MaxMalformedRuns == 3
\* the calls of analyze on one frame
MaxCalls == 2
\* the runs of a frame given to identify_fvgs
MaxGapRuns == 3
\* the candles of a run, the runs of a frame and the hours between the candles
\* of a frame given to identify_order_blocks
BlockRunLen == 3
MaxBlockRuns == 4
BlockHours == 6
\* the candles of a run given to identify_structure_shifts that have the
\* first body of its profile
ImpulseLen == 3
\* longest list of swing points given to _find_equal_levels
MaxSwings == 4
\* the rows of a frame whose prices are no numbers, and the runs of such a
\* frame that the scans over candles are called on
MaxBrokenRows == 1
MaxScanRuns == 3
\* the longest series of two calls of analyze that run together, in runs
MaxPairRuns == 3
\* the longest context handed to a strength score
MaxContext == 6

(***************************************************************************)
(* Exact rational arithmetic standing for the program's float arithmetic.  *)
(***************************************************************************)
Abs(x) == IF x < 0 THEN -x ELSE x

RECURSIVE GCD(_, _)
GCD(a, b) == IF b = 0 THEN a ELSE GCD(b, a % b)

\* the rational n/d in lowest terms with a positive denominator (d # 0)
Rat(n, d) ==
    LET g == GCD(Abs(n), Abs(d))
        s == IF d < 0 THEN -1 ELSE 1
    IN  <<(s * n) \div g, (s * d) \div g>>

RInt(k) == <<k, 1>>
\* the arithmetic cancels common factors before it multiplies
RAdd(a, b) ==
    LET g == GCD(a[2], b[2])
    IN  Rat(a[1] * (b[2] \div g) + b[1] * (a[2] \div g), (a[2] \div g) * b[2])
RSub(a, b) == RAdd(a, <<-b[1], b[2]>>)
RMul(a, b) ==
    LET g == GCD(Abs(a[1]), b[2])
        h == GCD(Abs(b[1]), a[2])
    IN  Rat((a[1] \div g) * (b[1] \div h), (a[2] \div h) * (b[2] \div g))
\* a / b for b # 0
RDiv(a, b) == RMul(a, IF b[1] < 0 THEN <<-b[2], -b[1]>> ELSE <<b[2], b[1]>>)
RLe(a, b) ==
    LET g == GCD(a[2], b[2])
    IN  a[1] * (b[2] \div g) <= b[1] * (a[2] \div g)
RLt(a, b) ==
    LET g == GCD(a[2], b[2])
    IN  a[1] * (b[2] \div g) < b[1] * (a[2] \div g)
RMin(a, b) == IF RLt(b, a) THEN b ELSE a
RMax(a, b) == IF RLt(a, b) THEN b ELSE a
RAbs(a) == <<Abs(a[1]), a[2]>>

\* Python's round(x, 1): the nearest multiple of 1/10, a tie going to the
\* even last digit; x >= 0
Round1(x) ==
    LET t == (10 * x[1]) \div x[2]
        r == (10 * x[1]) % x[2]
        up == \/ 2 * r > x[2]
              \/ (2 * r = x[2] /\ t % 2 = 1)
    IN  Rat(IF up THEN t + 1 ELSE t, 10)

RECURSIVE SumOver(_, _)
\* sum of the rationals of a sequence
SumOver(xs, k) == IF k = 0 THEN RInt(0) ELSE RAdd(SumOver(xs, k - 1), xs[k])

RSum(xs) == SumOver(xs, Len(xs))

\* the list that has x at position p for every pair <<p, x>> of places, the
\* positions being 1, 2, .. up to the number of pairs
Placed(places) ==
    [p \in 1..Cardinality(places) |-> (CHOOSE pl \in places : pl[1] = p)[2]]

\* the numbers of a set in increasing order
Ascending(hit) == Placed({<<Cardinality({j \in hit : j <= k}), k>> : k \in hit})

\* the indices of xs whose element satisfies Test, in increasing order
SelectIdx(xs, Test(_)) == Ascending({k \in 1..Len(xs) : Test(xs[k])})

\* Python's [F(x) for x in xs]
MapSeq(xs, F(_)) == [k \in 1..Len(xs) |-> F(xs[k])]

\* Python's [x for x in xs if Test(x)]
Comprehension(xs, Test(_)) ==
    LET ix == SelectIdx(xs, Test) IN [k \in 1..Len(ix) |-> xs[ix[k]]]

\* Python's xs.sort(key=Key, reverse=True): stable, elements of equal key
\* keep their order.  An element goes after the elements of a greater key
\* and the earlier elements of an equal key.
SortDesc(xs, Key(_)) ==
    LET before(j, k) == \/ RLt(Key(xs[k]), Key(xs[j]))
                        \/ (j < k /\ ~RLt(Key(xs[j]), Key(xs[k])))
    IN  Placed({<<1 + Cardinality({j \in 1..Len(xs) : before(j, k)}), xs[k]>> :
                    k \in 1..Len(xs)})

(***************************************************************************)
(* Signals.  A SmartMoneySignal is a record with the fields signal_type,   *)
(* direction, price, timestamp, strength and timeframe; price and strength *)
(* are rationals.  The display-only description and the additional_data    *)
(* mapping are not read by any operation and are left out.                 *)
(***************************************************************************)
SmartMoneySignal(signal_type, direction, price, timestamp, strength) ==
    [signal_type |-> signal_type, direction |-> direction, price |-> price,
     timestamp |-> timestamp, strength |-> strength, timeframe |-> "current"]

IsBullish(s) == s.direction = "bullish"
IsBearish(s) == s.direction = "bearish"

(***************************************************************************)
(* SmartMoneyAnalyzer.get_market_bias                                      *)
(***************************************************************************)
\* the bias thresholds of get_market_bias, in percent
BiasThreshold == 60
NeutralConfidence == 50
StrongStrength == 70

\* the result when the weights of both directions sum to 0
ZeroTotalBias_NoGuard(signals) ==
    [bias |-> "NEUTRAL", confidence |-> RInt(NeutralConfidence),
     reasoning |-> [text |-> "Sinais equilibrados"]]

ZeroTotalBias(signals) ==
    [bias |-> "NEUTRAL", confidence |-> RInt(0),
     reasoning |-> [text |-> "Sinais equilibrados"]]

\* the bias decision on the two percentages, before the rounding
DecideBias_Inclusive(bullish_percentage, bearish_percentage) ==
    IF RLe(RInt(BiasThreshold), bullish_percentage)
    THEN [bias |-> "BULLISH", confidence |-> bullish_percentage]
    ELSE IF RLe(RInt(BiasThreshold), bearish_percentage)
    THEN [bias |-> "BEARISH", confidence |-> bearish_percentage]
    ELSE [bias |-> "NEUTRAL", confidence |-> RInt(NeutralConfidence)]

DecideBias(bullish_percentage, bearish_percentage) ==
    IF RLt(RInt(BiasThreshold), bullish_percentage)
    THEN [bias |-> "BULLISH", confidence |-> bullish_percentage]
    ELSE IF RLt(RInt(BiasThreshold), bearish_percentage)
    THEN [bias |-> "BEARISH", confidence |-> bearish_percentage]
    ELSE [bias |-> "NEUTRAL", confidence |-> RInt(NeutralConfidence)]

get_market_bias(signals) ==
    IF signals = <<>>
    THEN [bias |-> "NEUTRAL", confidence |-> RInt(0),
          reasoning |-> [text |-> "Nenhum sinal disponivel"]]
    ELSE
      LET weight(s) == RDiv(s.strength, RInt(100))
          bullish_score == RSum(MapSeq(Comprehension(signals, IsBullish), weight))
          bearish_score == RSum(MapSeq(Comprehension(signals, IsBearish), weight))
          total_score == RAdd(bullish_score, bearish_score)
      IN  IF total_score = RInt(0) THEN ZeroTotalBias(signals)
          ELSE
            LET bullish_percentage ==
                    RMul(RDiv(bullish_score, total_score), RInt(100))
                bearish_percentage ==
                    RMul(RDiv(bearish_score, total_score), RInt(100))
                d == DecideBias(bullish_percentage, bearish_percentage)
                strong(s) == RLt(RInt(StrongStrength), s.strength)
            IN  [bias |-> d.bias,
                 confidence |-> Round1(d.confidence),
                 reasoning |->
                    [strong_signals |-> Len(Comprehension(signals, strong)),
                     total |-> Len(signals),
                     bullish |-> Round1(bullish_percentage),
                     bearish |-> Round1(bearish_percentage)]]

(***************************************************************************)
(* SmartMoneyAnalyzer.filter_signals_by_strength                           *)
(***************************************************************************)
filter_signals_by_strength_Strict(signals, min_strength) ==
    LET keep(s) == RLt(min_strength, s.strength)
    IN  Comprehension(signals, keep)

filter_signals_by_strength(signals, min_strength) ==
    LET keep(s) == RLe(min_strength, s.strength)
    IN  Comprehension(signals, keep)

(***************************************************************************)
(* SmartMoneyAnalyzer.get_confluence_signals                               *)
(***************************************************************************)
\* the bonus factor 1.2 of a confluence, as 12/10
ConfluenceBonusNum == 12
ConfluenceBonusDen == 10

\* other_signal is within the tolerance of the anchor signal
InTolerance(signal, other_signal, price_tolerance) ==
    LET price_diff == RAbs(RSub(signal.price, other_signal.price))
        tolerance == RMul(signal.price, price_tolerance)
    IN  RLe(price_diff, tolerance)

\* the positions of the signals gathered around the anchor at position i:
\* the anchor, then every later signal not yet used and within tolerance
ConfluentIdx_IgnoreUsed(signals, i, used, price_tolerance) ==
    LET near(j) == /\ j > i
                   /\ InTolerance(signals[i], signals[j], price_tolerance)
        pos == [k \in 1..Len(signals) |-> k]
    IN  <<i>> \o Comprehension(pos, near)

ConfluentIdx(signals, i, used, price_tolerance) ==
    LET near(j) == /\ j > i
                   /\ j \notin used
                   /\ InTolerance(signals[i], signals[j], price_tolerance)
        pos == [k \in 1..Len(signals) |-> k]
    IN  <<i>> \o Comprehension(pos, near)

combined_strength_NoCap(confluent_signals) ==
    LET mean == RDiv(RSum(MapSeq(confluent_signals, LAMBDA s : s.strength)),
                     RInt(Len(confluent_signals)))
    IN  RMul(mean, Rat(ConfluenceBonusNum, ConfluenceBonusDen))

combined_strength(confluent_signals) ==
    LET mean == RDiv(RSum(MapSeq(confluent_signals, LAMBDA s : s.strength)),
                     RInt(Len(confluent_signals)))
    IN  RMin(RInt(100), RMul(mean, Rat(ConfluenceBonusNum, ConfluenceBonusDen)))

dominant_direction_TieBullish(confluent_signals) ==
    LET bullish_count == Len(Comprehension(confluent_signals, IsBullish))
        bearish_count == Len(Comprehension(confluent_signals, IsBearish))
    IN  IF bullish_count >= bearish_count THEN "bullish" ELSE "bearish"

dominant_direction(confluent_signals) ==
    LET bullish_count == Len(Comprehension(confluent_signals, IsBullish))
        bearish_count == Len(Comprehension(confluent_signals, IsBearish))
    IN  IF bullish_count > bearish_count THEN "bullish" ELSE "bearish"

\* one confluence entry; idx (the members' positions in the input list) is
\* kept beside the fields of the program's dict to tell equal signals apart
Confluence(signals, ix) ==
    LET confluent_signals == [k \in 1..Len(ix) |-> signals[ix[k]]]
    IN  [signals |-> confluent_signals,
         idx |-> ix,
         avg_price |-> RDiv(RSum(MapSeq(confluent_signals, LAMBDA s : s.price)),
                            RInt(Len(confluent_signals))),
         combined_strength |-> combined_strength(confluent_signals),
         dominant_direction |-> dominant_direction(confluent_signals),
         signal_count |-> Len(confluent_signals),
         signal_types |-> {confluent_signals[k].signal_type :
                               k \in 1..Len(confluent_signals)}]

\* the loop over the signals: after the first i signals, the positions used
\* and the confluences appended so far
ConfluenceScan(signals, price_tolerance) ==
    LET f[i \in 0..Len(signals)] ==
          IF i = 0 THEN [used |-> {}, confluences |-> <<>>]
          ELSE
            LET prev == f[i - 1]
                ix == ConfluentIdx(signals, i, prev.used, price_tolerance)
            IN  IF i \in prev.used THEN prev
                ELSE [used |-> prev.used \cup {ix[k] : k \in 1..Len(ix)},
                      confluences |->
                         IF Len(ix) >= 2
                         THEN Append(prev.confluences, Confluence(signals, ix))
                         ELSE prev.confluences]
    IN  f[Len(signals)]

\* the confluences in the order the loop appends them, left unsorted
get_confluence_signals_Unsorted(signals, price_tolerance) ==
    ConfluenceScan(signals, price_tolerance).confluences

get_confluence_signals(signals, price_tolerance) ==
    SortDesc(ConfluenceScan(signals, price_tolerance).confluences,
             LAMBDA c : c.combined_strength)

(***************************************************************************)
(* Candles.  A row of the DataFrame is a record with the fields datetime,  *)
(* open, high, low, close and volume.  Prices are whole numbers of price   *)
(* units, 10000 units making a price of 1.0; datetime counts hours.  A row *)
(* may be malformed: ok = FALSE says that its price fields hold values     *)
(* that are no numbers (any arithmetic or comparison on them raises), and  *)
(* datetime = NotATime that its datetime is no datetime.                   *)
(***************************************************************************)
UnitsPerPrice == 10000
NotATime == -1

Candle(datetime, open, high, low, close, volume) ==
    [datetime |-> datetime, open |-> open, high |-> high, low |-> low,
     close |-> close, volume |-> volume, ok |-> TRUE]

\* df.iloc[i], i counted from 0
Row(df, i) == df[i + 1]

\* df.iloc[a:b], a slice clipped to the frame as Python clips it
Slice(df, a, b) ==
    LET lo == IF a < 0 THEN 0 ELSE a
        hi == IF b > Len(df) THEN Len(df) ELSE b
    IN  IF hi <= lo THEN <<>> ELSE SubSeq(df, lo + 1, hi)

\* a price of so many units, as the number the program computes with
Price(units) == Rat(units, UnitsPerPrice)

\* every row of the slice has numbers in its price fields
AllOk(rows) == \A k \in 1..Len(rows) : rows[k].ok

MaxInt(a, b) == IF a >= b THEN a ELSE b
MinInt(a, b) == IF a <= b THEN a ELSE b

\* rows['high'].max() and rows['low'].min() of a non-empty slice, in units
MaxHigh(rows) ==
    CHOOSE h \in {rows[k].high : k \in 1..Len(rows)} :
        \A k \in 1..Len(rows) : rows[k].high <= h

MinLow(rows) ==
    CHOOSE l \in {rows[k].low : k \in 1..Len(rows)} :
        \A k \in 1..Len(rows) : rows[k].low >= l

\* the pairs quoted in yen
JPYPairs == {"USDJPY"}

\* pip_value = 0.01 if 'JPY' in pair else 0.0001
pip_value(pair) == IF pair \in JPYPairs THEN Rat(1, 100) ELSE Rat(1, 10000)

(***************************************************************************)
(* The outcome of one step of a scan: a signal, nothing, or an exception   *)
(* caught by the step's try/except.                                        *)
(***************************************************************************)
Emit(signal) == [kind |-> "signal", signals |-> <<signal>>]
Nothing == [kind |-> "none", signals |-> <<>>]
Raised == [kind |-> "raise", signals |-> <<>>]

\* what a detector hands to its caller: a list, or an exception
Returned(list) == [raised |-> FALSE, signals |-> list]
Thrown == [raised |-> TRUE, signals |-> <<>>]

(***************************************************************************)
(* FairValueGapAnalyzer                                                    *)
(***************************************************************************)
min_gap_pips == 3
max_age_hours == 24

\* resolution of the square root taken in _calculate_trend_strength: the
\* trend strength is computed in steps of 1 / TrendSteps
TrendSteps == 4

\* a variant that takes a body of exactly 60% of the range as significant
has_significant_body_Inclusive(candle) ==
    LET body_size == Abs(candle.close - candle.open)
        total_range == candle.high - candle.low
    IN  IF total_range > 0 THEN 10 * body_size >= 6 * total_range ELSE FALSE

\* body_size > total_range * 0.6 if total_range > 0 else False
has_significant_body(candle) ==
    LET body_size == Abs(candle.close - candle.open)
        total_range == candle.high - candle.low
    IN  IF total_range > 0 THEN 10 * body_size > 6 * total_range ELSE FALSE

_is_bullish_impulse(candle) ==
    candle.close > candle.open /\ has_significant_body(candle)

_is_bearish_impulse(candle) ==
    candle.close < candle.open /\ has_significant_body(candle)

\* the greatest common divisor of the absolute values of a list of
\* integers, taken by halves
GcdOf(ys) ==
    LET f[a \in 0..Len(ys), b \in 0..Len(ys)] ==
          IF b <= a THEN 0
          ELSE IF b = a + 1 THEN Abs(ys[b])
          ELSE GCD(f[a, (a + b) \div 2], f[(a + b) \div 2, b])
    IN  f[0, Len(ys)]

\* the largest k in 0..TrendSteps with (k / TrendSteps)^2 <= q * a2 / c, for
\* a rational q and whole numbers a2 >= 0 and c > 0
RootSteps(q, a2, c) ==
    LET fits(k) == k = 0 \/ c <= (q[1] * a2 * TrendSteps * TrendSteps)
                                   \div (k * k * q[2])
    IN  CHOOSE k \in 0..TrendSteps :
            fits(k) /\ (k < TrendSteps => ~fits(k + 1))

\* the closes relative to the first
Relative(closes) == [k \in 1..Len(closes) |-> closes[k] - closes[1]]

\* the values in units of g
Scaled(rel, g) == [k \in 1..Len(rel) |-> IF g = 0 THEN 0 ELSE rel[k] \div g]

\* the sums of the one point (x, y)
PointSums(x, y) == [x |-> x, xx |-> x * x, y |-> y, yy |-> y * y, xy |-> x * y]

\* the sums of two groups of points together
AddSums(s, t) ==
    [x |-> s.x + t.x, xx |-> s.xx + t.xx, y |-> s.y + t.y,
     yy |-> s.yy + t.yy, xy |-> s.xy + t.xy]

\* the sums of x, x^2, y, y^2 and x y over the points (k - 1, ys[k]), added
\* up by halves
TrendSums(ys) ==
    LET SumF[a \in 0..Len(ys), b \in 0..Len(ys)] ==
          IF b <= a THEN [x |-> 0, xx |-> 0, y |-> 0, yy |-> 0, xy |-> 0]
          ELSE IF b = a + 1 THEN PointSums(a, ys[b])
          ELSE AddSums(SumF[a, (a + b) \div 2], SumF[(a + b) \div 2, b])
    IN  SumF[0, Len(ys)]

\* slope = a / bx and price_std^2 = c / (n (n - 1)), so that
\* (slope / price_std / 2)^2 = a^2 / c * n (n - 1) / (4 bx^2)
TrendRatio(n, a, bx, c) ==
    IF c > 0
    THEN Rat(RootSteps(Rat(n * (n - 1), 4 * bx * bx), a * a, c), TrendSteps)
    ELSE Rat(1, 2)

TrendOfSums(n, t) ==
    TrendRatio(n, n * t.xy - t.x * t.y, n * t.xx - t.x * t.x,
               n * t.yy - t.y * t.y)

\* min(1.0, (abs(slope) / price_std) / 2) of the least-squares slope of the
\* closes over x = 0, 1, ..; the closes are taken relative to the first and
\* in units of their common divisor, which changes neither the sign nor the
\* ratio of slope and deviation
_calculate_trend_strength(closes) ==
    IF Len(closes) < 2 THEN Rat(1, 2)
    ELSE TrendOfSums(Len(closes),
                     TrendSums(Scaled(Relative(closes), GcdOf(Relative(closes)))))

\* rows['volume'].sum()
SumVolume(rows) ==
    LET f[a \in 0..Len(rows), b \in 0..Len(rows)] ==
          IF b <= a THEN 0
          ELSE IF b = a + 1 THEN rows[b].volume
          ELSE f[a, (a + b) \div 2] + f[(a + b) \div 2, b]
    IN  f[0, Len(rows)]

\* Fator 3 of the two strength scores: the volume of the candle against
\* the mean volume of the context
volume_strength(candle, context) ==
    IF Len(context) > 5
    THEN LET total == SumVolume(context)
         IN  IF total > 0
             THEN \* volume / avg_volume * 10, avg_volume = total / len
                  RMin(RInt(25), Rat(candle.volume * Len(context) * 10, total))
             ELSE RInt(0)
    ELSE RInt(15)

gap_strength(gap_pips) == RMin(RInt(25), RMul(gap_pips, RInt(2)))

impulse_strength(impulse_candle) ==
    LET body_size == Abs(impulse_candle.close - impulse_candle.open)
        total_range == impulse_candle.high - impulse_candle.low
    IN  IF total_range > 0 THEN Rat(body_size * 25, total_range) ELSE RInt(0)

context_strength(context_data) ==
    IF Len(context_data) >= 10
    THEN LET tail == SubSeq(context_data, Len(context_data) - 9, Len(context_data))
             recent_closes == [k \in 1..10 |-> tail[k].close]
         IN  RMul(_calculate_trend_strength(recent_closes), RInt(25))
    ELSE Rat(25, 2)

Clamp(strength) == RMin(RInt(100), RMax(RInt(0), strength))

_calculate_fvg_strength(gap_pips, impulse_candle, context_data) ==
    Clamp(RSum(<<gap_strength(gap_pips), impulse_strength(impulse_candle),
                 volume_strength(impulse_candle, context_data),
                 context_strength(context_data)>>))

\* the body of the loop of identify_fvgs at index i (from 0)
FvgStep(df, i, pair) ==
    LET candle_1 == Row(df, i - 2)
        candle_2 == Row(df, i - 1)
        candle_3 == Row(df, i)
        context == Slice(df, MaxInt(0, i - 10), i + 1)
        found(kind, direction, gap_high, gap_low) ==
            LET gap_pips == RDiv(Price(gap_high - gap_low), pip_value(pair))
            IN  IF ~RLe(RInt(min_gap_pips), gap_pips) THEN Nothing
                ELSE IF ~candle_2.ok THEN Raised
                ELSE IF ~(IF direction = "bullish"
                          THEN _is_bullish_impulse(candle_2)
                          ELSE _is_bearish_impulse(candle_2)) THEN Nothing
                ELSE IF Len(context) >= 10
                        /\ ~AllOk(Slice(context, Len(context) - 10, Len(context)))
                THEN Raised
                ELSE Emit(SmartMoneySignal(kind, direction,
                            RDiv(RAdd(Price(gap_high), Price(gap_low)), RInt(2)),
                            candle_3.datetime,
                            _calculate_fvg_strength(gap_pips, candle_2, context)))
    IN  IF ~(candle_1.ok /\ candle_3.ok) THEN Raised
        ELSE IF candle_1.low > candle_3.high
        THEN found("FVG_Bullish", "bullish", candle_1.low, candle_3.high)
        ELSE IF candle_1.high < candle_3.low
        THEN found("FVG_Bearish", "bearish", candle_3.low, candle_1.high)
        ELSE Nothing

\* the signals a loop appends over the indices first .. last - 1, a step
\* that raises appending nothing (except: continue)
Scan(first, last, Step(_)) ==
    LET f[a \in first..MaxInt(first, last), b \in first..MaxInt(first, last)] ==
          IF b <= a THEN <<>>
          ELSE IF b = a + 1 THEN Step(a).signals
          ELSE f[a, (a + b) \div 2] \o f[(a + b) \div 2, b]
    IN  f[first, MaxInt(first, last)]

\* Python's xs.sort(key=Key): stable.  An element goes after the elements
\* of a smaller key and the earlier elements of an equal key.
SortAsc(xs, Key(_)) ==
    LET before(j, k) == \/ Key(xs[j]) < Key(xs[k])
                        \/ (j < k /\ Key(xs[j]) = Key(xs[k]))
    IN  Placed({<<1 + Cardinality({j \in 1..Len(xs) : before(j, k)}), xs[k]>> :
                    k \in 1..Len(xs)})

\* some element of the list has a timestamp that is no datetime
HasNoTime(xs) == \E k \in 1..Len(xs) : xs[k].timestamp = NotATime

\* a variant that drops a gap whose age is exactly max_age_hours
FvgAgeFilter_Exclusive(signals, current_time) ==
    IF signals = <<>> THEN Returned(<<>>)
    ELSE IF current_time = NotATime \/ HasNoTime(signals) THEN Thrown
    ELSE LET young(s) == current_time - s.timestamp < max_age_hours
         IN  Returned(Comprehension(signals, young))

\* Filtrar FVGs por idade: the subtraction raises on a value that is no
\* datetime
FvgAgeFilter(signals, current_time) ==
    IF signals = <<>> THEN Returned(<<>>)
    ELSE IF current_time = NotATime \/ HasNoTime(signals) THEN Thrown
    ELSE LET young(s) == current_time - s.timestamp <= max_age_hours
         IN  Returned(Comprehension(signals, young))

identify_fvgs(df, pair) ==
    IF Len(df) < 3 THEN Returned(<<>>)
    ELSE LET step(i) == FvgStep(df, i, pair)
         IN  FvgAgeFilter(Scan(2, Len(df), step), Row(df, Len(df) - 1).datetime)

(***************************************************************************)
(* OrderBlockAnalyzer                                                      *)
(***************************************************************************)
min_size_pips == 5
confirmation_candles == 2
\* the shortest frame and the first index of identify_order_blocks
ob_min_candles == 10
ob_window == 5

\* a variant that asks for a move of more than min_size_pips
_is_potential_bullish_ob_Strict(candle, future_candles, pip) ==
    IF Len(future_candles) = 0 THEN FALSE
    ELSE LET move_pips == RDiv(Price(MaxHigh(future_candles) - candle.high), pip)
         IN  candle.close < candle.open /\ RLt(RInt(min_size_pips), move_pips)

_is_potential_bullish_ob(candle, future_candles, pip) ==
    IF Len(future_candles) = 0 THEN FALSE
    ELSE LET move_pips == RDiv(Price(MaxHigh(future_candles) - candle.high), pip)
         IN  candle.close < candle.open /\ RLe(RInt(min_size_pips), move_pips)

_is_potential_bearish_ob(candle, future_candles, pip) ==
    IF Len(future_candles) = 0 THEN FALSE
    ELSE LET move_pips == RDiv(Price(candle.low - MinLow(future_candles)), pip)
         IN  candle.close > candle.open /\ RLe(RInt(min_size_pips), move_pips)

\* the confirmation move, a price difference
_calculate_confirmation_move(future_candles, direction) ==
    IF Len(future_candles) = 0 THEN RInt(0)
    ELSE IF direction = "bullish"
    THEN Price(MaxHigh(future_candles) - future_candles[1].close)
    ELSE Price(future_candles[1].close - MinLow(future_candles))

move_strength(confirmation_move) ==
    IF RLt(RInt(0), confirmation_move)
    THEN RMin(RInt(30), RMul(confirmation_move, RInt(10000)))
    ELSE RInt(0)

speed_strength(confirmation_move, future_candles) ==
    IF Len(future_candles) > 0
    THEN RMin(RInt(25),
              RMul(RDiv(confirmation_move, RInt(Len(future_candles))),
                   RInt(50000)))
    ELSE RInt(0)

quality_strength(ob_candle) ==
    LET body_size == Abs(ob_candle.close - ob_candle.open)
        total_range == ob_candle.high - ob_candle.low
    IN  IF total_range > 0 THEN Rat(body_size * 20, total_range) ELSE RInt(10)

_calculate_ob_strength(ob_candle, future_candles, context, direction) ==
    LET confirmation_move == _calculate_confirmation_move(future_candles, direction)
    IN  Clamp(RAdd(RAdd(move_strength(confirmation_move),
                        speed_strength(confirmation_move, future_candles)),
                   RAdd(volume_strength(ob_candle, context),
                        quality_strength(ob_candle))))

\* the body of the loop of identify_order_blocks at index i (from 0)
ObStep(df, i, pair) ==
    LET current_candle == Row(df, i)
        future_candles == Slice(df, i + 1, i + 1 + confirmation_candles)
        context == Slice(df, MaxInt(0, i - 10), i + 10)
        pip == pip_value(pair)
    IN  IF ~(current_candle.ok /\ AllOk(future_candles)) THEN Raised
        ELSE IF _is_potential_bullish_ob(current_candle, future_candles, pip)
        THEN Emit(SmartMoneySignal("OB_Bullish", "bullish",
                    Price(current_candle.low), current_candle.datetime,
                    _calculate_ob_strength(current_candle, future_candles,
                                           context, "bullish")))
        ELSE IF _is_potential_bearish_ob(current_candle, future_candles, pip)
        THEN Emit(SmartMoneySignal("OB_Bearish", "bearish",
                    Price(current_candle.high), current_candle.datetime,
                    _calculate_ob_strength(current_candle, future_candles,
                                           context, "bearish")))
        ELSE Nothing

\* the index a scan stops at when it ends at the first index that raises
StopIndex(raising, last) ==
    IF raising = {} THEN last ELSE CHOOSE i \in raising : \A j \in raising : i <= j

\* a variant whose scan ends at the first index that raises
identify_order_blocks_StopAtError(df, pair) ==
    IF Len(df) < ob_min_candles THEN Returned(<<>>)
    ELSE LET step(i) == ObStep(df, i, pair)
             last == Len(df) - confirmation_candles
         IN  Returned(Scan(ob_window,
                           StopIndex({i \in ob_window..(last - 1) :
                                          step(i).kind = "raise"}, last),
                           step))

identify_order_blocks(df, pair) ==
    IF Len(df) < ob_min_candles THEN Returned(<<>>)
    ELSE LET step(i) == ObStep(df, i, pair)
         IN  Returned(Scan(ob_window, Len(df) - confirmation_candles, step))

(***************************************************************************)
(* MarketStructureAnalyzer                                                 *)
(***************************************************************************)
lookback_period == 20
min_break_pips == 2
\* the default window of _identify_swing_points
swing_window == 5
\* the fewest swing points identify_structure_shifts works on
min_swing_points == 4
\* the strength of every ChoCh signal
choch_strength == 70

\* a swing point stamped with a time no candle has
SwingPoint_NoCandleTime(type, price, timestamp, index) ==
    [type |-> type, price |-> price, timestamp |-> -2 - index, index |-> index]

SwingPoint(type, price, timestamp, index) ==
    [type |-> type, price |-> price, timestamp |-> timestamp, index |-> index]

\* a variant that looks at the candles up to i only
SwingStep_LookBackOnly(df, i, window) ==
    LET rows == Slice(df, i - window, i + 1)
        current == Row(df, i)
    IN  IF ~AllOk(rows) THEN [kind |-> "raise", signals |-> <<>>]
        ELSE IF current.high = MaxHigh(rows)
        THEN Emit([type |-> "high", price |-> current.high,
                   timestamp |-> current.datetime, index |-> i])
        ELSE IF current.low = MinLow(rows)
        THEN Emit([type |-> "low", price |-> current.low,
                   timestamp |-> current.datetime, index |-> i])
        ELSE [kind |-> "none", signals |-> <<>>]

\* a variant that tests for a low before it tests for a high
SwingStep_LowFirst(df, i, window) ==
    LET rows == Slice(df, i - window, i + window + 1)
        current == Row(df, i)
    IN  IF ~AllOk(rows) THEN [kind |-> "raise", signals |-> <<>>]
        ELSE IF current.low = MinLow(rows)
        THEN Emit([type |-> "low", price |-> current.low,
                   timestamp |-> current.datetime, index |-> i])
        ELSE IF current.high = MaxHigh(rows)
        THEN Emit([type |-> "high", price |-> current.high,
                   timestamp |-> current.datetime, index |-> i])
        ELSE [kind |-> "none", signals |-> <<>>]

\* the body of the loop of _identify_swing_points at index i (from 0); the
\* outcome holds swing points in place of signals
SwingStep(df, i, window) ==
    LET rows == Slice(df, i - window, i + window + 1)
        current == Row(df, i)
    IN  IF ~AllOk(rows) THEN Raised
        ELSE IF current.high = MaxHigh(rows)
        THEN Emit(SwingPoint("high", current.high, current.datetime, i))
        ELSE IF current.low = MinLow(rows)
        THEN Emit(SwingPoint("low", current.low, current.datetime, i))
        ELSE Nothing

_identify_swing_points(df, window) ==
    LET step(i) == SwingStep(df, i, window)
    IN  Scan(window, Len(df) - window, step)

IsHigh(s) == s.type = "high"
IsLow(s) == s.type = "low"

\* all(xs[i] <= xs[i+1] for i in range(len(xs)-1)) on the prices of a list
\* of swing points
NonDecreasing(swings) ==
    \A k \in 1..(Len(swings) - 1) : swings[k].price <= swings[k + 1].price

\* Fator 1: Consistencia da tendencia anterior
consistency_strength(swing_context, structure_type) ==
    LET relevant == IF structure_type = "bullish_mss"
                    THEN Comprehension(swing_context, IsLow)
                    ELSE Comprehension(swing_context, IsHigh)
    IN  IF Len(relevant) >= 2
        THEN (IF NonDecreasing(relevant) THEN RInt(40) ELSE RInt(20))
        ELSE RInt(0)

\* Fator 2: Magnitude da quebra
magnitude_strength(swing_context) ==
    LET latest == swing_context[Len(swing_context)]
        previous == swing_context[Len(swing_context) - 1]
        price_diff == Price(Abs(latest.price - previous.price))
        avg_price == RDiv(Price(latest.price + previous.price), RInt(2))
    IN  IF RLt(RInt(0), avg_price)
        THEN RMin(RInt(30),
                  RMul(RMul(RDiv(price_diff, avg_price), RInt(100)), RInt(1000)))
        ELSE RInt(0)

_calculate_structure_strength(swing_context, structure_type) ==
    IF Len(swing_context) < 2 THEN RInt(50)
    ELSE Clamp(RAdd(RAdd(consistency_strength(swing_context, structure_type),
                         magnitude_strength(swing_context)),
                    IF Len(swing_context) >= 3 THEN RInt(30) ELSE RInt(0)))

\* the last and the one before last element of a list
Last(xs) == xs[Len(xs)]
Prev(xs) == xs[Len(xs) - 1]

\* a variant of the ChoCh Bullish branch that does not ask for the last low
\* to come after the last high
ChochBullish_AnyOrder(lows, highs, pip) ==
    IF Len(lows) >= 2 /\ Len(highs) >= 1
    THEN LET last_low == Last(lows)
             prev_low == Prev(lows)
             last_high == Last(highs)
             break_size == RDiv(Price(last_high.price - prev_low.price), pip)
         IN  IF /\ last_low.price < prev_low.price
                /\ RLe(RInt(min_break_pips), break_size)
             THEN <<SmartMoneySignal("ChoCh_Bullish", "bullish",
                        Price(last_high.price), last_low.timestamp,
                        RInt(choch_strength))>>
             ELSE <<>>
    ELSE <<>>

\* the ChoCh Bullish branch of _identify_change_of_character
ChochBullish(lows, highs, pip) ==
    IF Len(lows) >= 2 /\ Len(highs) >= 1
    THEN LET last_low == Last(lows)
             prev_low == Prev(lows)
             last_high == Last(highs)
             break_size == RDiv(Price(last_high.price - prev_low.price), pip)
         IN  IF /\ last_low.price < prev_low.price
                /\ last_low.index > last_high.index
                /\ RLe(RInt(min_break_pips), break_size)
             THEN <<SmartMoneySignal("ChoCh_Bullish", "bullish",
                        Price(last_high.price), last_low.timestamp,
                        RInt(choch_strength))>>
             ELSE <<>>
    ELSE <<>>

\* the ChoCh Bearish branch of _identify_change_of_character
ChochBearish(lows, highs, pip) ==
    IF Len(highs) >= 2 /\ Len(lows) >= 1
    THEN LET last_high == Last(highs)
             prev_high == Prev(highs)
             last_low == Last(lows)
             break_size == RDiv(Price(prev_high.price - last_low.price), pip)
         IN  IF /\ last_high.price > prev_high.price
                /\ last_high.index > last_low.index
                /\ RLe(RInt(min_break_pips), break_size)
             THEN <<SmartMoneySignal("ChoCh_Bearish", "bearish",
                        Price(last_low.price), last_high.timestamp,
                        RInt(choch_strength))>>
             ELSE <<>>
    ELSE <<>>

\* the list holds the signal returned, or is empty for None
_identify_change_of_character(recent_swings, pip) ==
    IF Len(recent_swings) < 4 THEN <<>>
    ELSE LET lows == Comprehension(recent_swings, IsLow)
             highs == Comprehension(recent_swings, IsHigh)
             bullish == ChochBullish(lows, highs, pip)
         IN  IF bullish # <<>> THEN bullish ELSE ChochBearish(lows, highs, pip)

\* the MSS part of the loop of identify_structure_shifts at swing i (from 0)
MssSignals(swing_points, i, pip) ==
    LET current_swing == Row(swing_points, i)
        prev_prev_swing == Row(swing_points, i - 2)
        context == Slice(swing_points, MaxInt(0, i - 3), i + 1)
    IN  IF /\ current_swing.type = "high"
           /\ prev_prev_swing.type = "high"
           /\ current_swing.price > prev_prev_swing.price
        THEN LET break_size ==
                   RDiv(Price(current_swing.price - prev_prev_swing.price), pip)
             IN  IF RLe(RInt(min_break_pips), break_size)
                 THEN <<SmartMoneySignal("MSS_Bullish", "bullish",
                            Price(current_swing.price), current_swing.timestamp,
                            _calculate_structure_strength(context, "bullish_mss"))>>
                 ELSE <<>>
        ELSE IF /\ current_swing.type = "low"
                /\ prev_prev_swing.type = "low"
                /\ current_swing.price < prev_prev_swing.price
        THEN LET break_size ==
                   RDiv(Price(prev_prev_swing.price - current_swing.price), pip)
             IN  IF RLe(RInt(min_break_pips), break_size)
                 THEN <<SmartMoneySignal("MSS_Bearish", "bearish",
                            Price(current_swing.price), current_swing.timestamp,
                            _calculate_structure_strength(context, "bearish_mss"))>>
                 ELSE <<>>
        ELSE <<>>

\* the body of the loop of identify_structure_shifts at swing i (from 0)
StructureStep(swing_points, i, pip) ==
    [kind |-> "signal",
     signals |-> MssSignals(swing_points, i, pip)
                   \o _identify_change_of_character(
                          Slice(swing_points, MaxInt(0, i - 4), i + 1), pip)]

\* the loop of identify_structure_shifts over the swing points
StructureScan(swing_points, pip) ==
    IF Len(swing_points) < min_swing_points THEN Returned(<<>>)
    ELSE LET step(i) == StructureStep(swing_points, i, pip)
         IN  Returned(Scan(2, Len(swing_points), step))

identify_structure_shifts(df, pair) ==
    IF Len(df) < lookback_period * 2 THEN Returned(<<>>)
    ELSE StructureScan(_identify_swing_points(df, swing_window), pip_value(pair))

(***************************************************************************)
(* LiquidityAnalyzer                                                       *)
(***************************************************************************)
\* equal_level_tolerance = 0.0002, as 2 / 10000
equal_level_tolerance_num == 2
equal_level_tolerance_den == 10000
\* the shortest frame of identify_liquidity_zones
liquidity_min_candles == 20
\* the strength a touch adds
touch_strength == 25

\* other_point is within the tolerance of the anchor point
EqualLevel(point, other_point) ==
    LET price_diff == Price(Abs(point.price - other_point.price))
        tolerance == RMul(Price(point.price),
                          Rat(equal_level_tolerance_num, equal_level_tolerance_den))
    IN  RLe(price_diff, tolerance)

\* a variant that gathers around the anchor the points earlier groups have
\* taken as well
LevelIdx_IgnoreUsed(swing_points, i, used) ==
    LET near(j) == /\ j > i
                   /\ EqualLevel(swing_points[i], swing_points[j])
        pos == [k \in 1..Len(swing_points) |-> k]
    IN  <<i>> \o Comprehension(pos, near)

\* the positions gathered around the anchor at position i of the list
LevelIdx(swing_points, i, used) ==
    LET near(j) == /\ j > i
                   /\ j \notin used
                   /\ EqualLevel(swing_points[i], swing_points[j])
        pos == [k \in 1..Len(swing_points) |-> k]
    IN  <<i>> \o Comprehension(pos, near)

\* the state of the loop of _find_equal_levels after one more point, the
\* positions ix gathered around it: the positions used, the groups appended,
\* and whether a sort has raised
LevelStep(prev, swing_points, i, ix) ==
    IF prev.raised \/ i \in prev.used THEN prev
    ELSE IF Len(ix) < 2 THEN [prev EXCEPT !.used = prev.used \cup {i}]
    ELSE IF \E k \in 1..Len(ix) : swing_points[ix[k]].timestamp = NotATime
    THEN [prev EXCEPT !.raised = TRUE]
    ELSE [used |-> prev.used \cup {ix[k] : k \in 1..Len(ix)},
          groups |-> Append(prev.groups,
                        SortAsc([k \in 1..Len(ix) |-> swing_points[ix[k]]],
                                LAMBDA x : x.timestamp)),
          raised |-> FALSE]

LevelStepAt(prev, swing_points, i) ==
    LevelStep(prev, swing_points, i, LevelIdx(swing_points, i, prev.used))

RECURSIVE LevelRange(_, _, _, _)
\* the state of the loop of _find_equal_levels after the points at the
\* positions a + 1 .. b, from the state prev before them; the positions are
\* gone through by halves
LevelRange(prev, swing_points, a, b) ==
    IF prev.raised \/ b <= a THEN prev
    ELSE IF b = a + 1 THEN LevelStepAt(prev, swing_points, b)
    ELSE LevelRange(LevelRange(prev, swing_points, a, (a + b) \div 2),
                    swing_points, (a + b) \div 2, b)

\* the loop of _find_equal_levels
LevelScan(swing_points) ==
    LevelRange([used |-> {}, groups |-> <<>>, raised |-> FALSE], swing_points,
               0, Len(swing_points))

\* the groups, or an exception of the sort
_find_equal_levels(swing_points) ==
    IF Len(swing_points) < 2 THEN [used |-> {}, groups |-> <<>>, raised |-> FALSE]
    ELSE LevelScan(swing_points)

\* the strength without its cap
liquidity_strength_NoCap(level_group) == RInt(Len(level_group) * touch_strength)

liquidity_strength(level_group) ==
    RMin(RInt(100), RInt(Len(level_group) * touch_strength))

\* the signals of the groups of one kind
LevelSignals(groups, kind, direction) ==
    LET big(g) == Len(g) >= 2
        sig(g) == SmartMoneySignal(kind, direction, Price(g[1].price),
                                   Last(g).timestamp, liquidity_strength(g))
    IN  MapSeq(Comprehension(groups, big), sig)

\* a variant that gives the equal highs the direction of the equal lows
ZoneSignals_OneDirection(equal_highs, equal_lows) ==
    IF equal_highs.raised \/ equal_lows.raised THEN Thrown
    ELSE Returned(
           LevelSignals(equal_highs.groups, "Liquidity_EqualHighs", "bullish")
           \o LevelSignals(equal_lows.groups, "Liquidity_EqualLows", "bullish"))

\* the signals of the equal highs, then of the equal lows
ZoneSignals(equal_highs, equal_lows) ==
    IF equal_highs.raised \/ equal_lows.raised THEN Thrown
    ELSE Returned(
           LevelSignals(equal_highs.groups, "Liquidity_EqualHighs", "bearish")
           \o LevelSignals(equal_lows.groups, "Liquidity_EqualLows", "bullish"))

ZonesOfSwings(swing_points) ==
    ZoneSignals(_find_equal_levels(Comprehension(swing_points, IsHigh)),
                _find_equal_levels(Comprehension(swing_points, IsLow)))

\* a variant that looks for zones on a frame of any length
identify_liquidity_zones_NoMinimum(df, pair) ==
    ZonesOfSwings(_identify_swing_points(df, swing_window))

identify_liquidity_zones(df, pair) ==
    IF Len(df) < liquidity_min_candles THEN Returned(<<>>)
    ELSE ZonesOfSwings(_identify_swing_points(df, swing_window))

(***************************************************************************)
(* SmartMoneyAnalyzer.analyze                                              *)
(***************************************************************************)
EmptyResults ==
    [fair_value_gaps |-> <<>>, order_blocks |-> <<>>, market_structure |-> <<>>,
     liquidity_zones |-> <<>>, all_signals |-> <<>>]

\* all_signals.sort(key=lambda x: x.timestamp, reverse=True); a comparison
\* with a timestamp that is no datetime raises
SortAllSignals(all_signals) ==
    IF Len(all_signals) >= 2 /\ HasNoTime(all_signals) THEN Thrown
    ELSE Returned(SortDesc(all_signals, LAMBDA x : RInt(x.timestamp)))

\* what the try block has assigned when it ends, normally or by the first
\* exception, given what each of its steps does
TryBlock(fvg, ob, ms, lz, sorted) ==
    [fair_value_gaps |-> fvg.signals,
     order_blocks |-> IF fvg.raised THEN <<>> ELSE ob.signals,
     market_structure |-> IF fvg.raised \/ ob.raised THEN <<>> ELSE ms.signals,
     liquidity_zones |-> IF fvg.raised \/ ob.raised \/ ms.raised THEN <<>>
                         ELSE lz.signals,
     all_signals |-> IF fvg.raised \/ ob.raised \/ ms.raised \/ lz.raised
                     THEN <<>> ELSE sorted.signals]

\* the detectors' lists in the order analyze concatenates them
Concatenated(fvg, ob, ms, lz) == fvg.signals \o ob.signals \o ms.signals \o lz.signals

\* the try block runs the detectors in turn, concatenates and sorts
RunDetectors(fvg, ob, ms, lz) ==
    TryBlock(fvg, ob, ms, lz, SortAllSignals(Concatenated(fvg, ob, ms, lz)))

analyze(df, pair) ==
    RunDetectors(identify_fvgs(df, pair), identify_order_blocks(df, pair),
                 identify_structure_shifts(df, pair),
                 identify_liquidity_zones(df, pair))

(***************************************************************************)
(* The list objects of a call of analyze.  A Python list is an object: two *)
(* names may hold the same list, and list.sort() reorders the object       *)
(* behind every name that holds it.  lists maps an object to its content:  *)
(* the four lists behind the keys of the detectors, the empty list of line *)
(* 772 ("initial") and the list the + of line 792 builds                   *)
(* ("concatenated").  local is the object the local name all_signals       *)
(* holds and key the object results['all_signals'] holds.                  *)
(***************************************************************************)
\* the objects when the detectors have been called: the lists the try block
\* has assigned to the keys of results, a key whose detector was not called
\* holding the empty list of line 767
DetectorLists(fvg, ob, ms, lz) ==
    LET assigned == TryBlock(fvg, ob, ms, lz, Returned(<<>>))
    IN  [lists |-> [fair_value_gaps |-> assigned.fair_value_gaps,
                    order_blocks |-> assigned.order_blocks,
                    market_structure |-> assigned.market_structure,
                    liquidity_zones |-> assigned.liquidity_zones,
                    initial |-> <<>>, concatenated |-> <<>>],
         local |-> "initial", key |-> "initial"]

\* the four lists one after the other
ConcatenationOf(lists) ==
    lists.fair_value_gaps \o lists.order_blocks \o lists.market_structure
        \o lists.liquidity_zones

\* a variant that extends the list of fair value gaps with the other lists
\* (all_signals = results['fair_value_gaps']; all_signals += ...)
ConcatenateLists_InPlace(heap) ==
    [heap EXCEPT !.lists.fair_value_gaps = ConcatenationOf(heap.lists),
                 !.local = "fair_value_gaps"]

\* all_signals = (results['fair_value_gaps'] + ... ): + builds a new list
ConcatenateLists(heap) ==
    [heap EXCEPT !.lists.concatenated = ConcatenationOf(heap.lists),
                 !.local = "concatenated"]

\* all_signals.sort(key=lambda x: x.timestamp, reverse=True) reorders the
\* object all_signals holds, and results['all_signals'] = all_signals gives
\* the key that object; a sort that raises leaves the key as it was
SortListInPlace(heap) ==
    LET sorted == SortAllSignals(heap.lists[heap.local])
    IN  IF sorted.raised THEN heap
        ELSE [heap EXCEPT !.lists[heap.local] = sorted.signals,
                          !.key = heap.local]

\* the objects when analyze returns: the try block stops at the first
\* exception
ListsOfAnalyze(fvg, ob, ms, lz) ==
    IF fvg.raised \/ ob.raised \/ ms.raised \/ lz.raised
    THEN DetectorLists(fvg, ob, ms, lz)
    ELSE SortListInPlace(ConcatenateLists(DetectorLists(fvg, ob, ms, lz)))

\* the dictionary analyze returns: each key with the content of its object
ResultsOfLists(heap) ==
    [fair_value_gaps |-> heap.lists.fair_value_gaps,
     order_blocks |-> heap.lists.order_blocks,
     market_structure |-> heap.lists.market_structure,
     liquidity_zones |-> heap.lists.liquidity_zones,
     all_signals |-> heap.lists[heap.key]]

(***************************************************************************)
(* State.                                                                  *)
(*   signals  the list handed to a list operation: the signals handed to   *)
(*            the aggregator, the swing points handed to                   *)
(*            _find_equal_levels                                           *)
(*   out      the last call of such an operation: its name, argument and   *)
(*            returned value                                               *)
(*   df       the candles handed to analyze, oldest first                  *)
(*   pair     the currency pair handed to analyze                          *)
(*   results  the dictionaries the calls of analyze have returned, in the  *)
(*            order of the calls; empty before the first call              *)
(***************************************************************************)
VARIABLES signals, out, df, pair, results

vars == <<signals, out, df, pair, results>>

NoCall == [op |-> "none", arg |-> <<>>, result |-> <<>>]

\* the inputs the list operations are tried on
Directions == {"bullish", "bearish", "neutral"}
BiasStrengths == {0, 40, 60, 100}
MinStrengths == {50, 60}
PriceTolerances == {<<1, 1000>>, <<1, 500>>}

TypeOf(direction) ==
    CASE direction = "bullish" -> "OB_Bullish"
      [] direction = "bearish" -> "OB_Bearish"
      [] OTHER -> "Custom"

BiasInputs ==
    {SmartMoneySignal(TypeOf(d), d, RInt(2001), 0, RInt(st)) :
        d \in Directions, st \in BiasStrengths}

\* three prices 2 apart around 2000: at tolerance 1/1000 only 2001 and 2003
\* reach the price 2 below them, at 1/500 neighbours reach each other and
\* 2003 alone reaches 1999
ConfInputs ==
    {SmartMoneySignal("FVG_Bullish", "bullish", RInt(1999), 0, RInt(40)),
     SmartMoneySignal("OB_Bullish", "bullish", RInt(2001), 0, RInt(40)),
     SmartMoneySignal("OB_Bearish", "bearish", RInt(2001), 0, RInt(90)),
     SmartMoneySignal("MSS_Bullish", "bullish", RInt(2003), 0, RInt(90)),
     SmartMoneySignal("FVG_Bearish", "bearish", RInt(2003), 0, RInt(40)),
     SmartMoneySignal("Custom", "neutral", RInt(2001), 0, RInt(40))}

InitLists ==
    /\ signals = <<>>
    /\ out = NoCall
    /\ df = <<>>
    /\ pair = "EURUSD"
    /\ results = <<>>

\* the caller builds the list before calling
AddBiasSignal ==
    /\ out.op = "none"
    /\ Len(signals) < MaxBiasSignals
    /\ \E s \in BiasInputs : signals' = Append(signals, s)
    /\ UNCHANGED <<out, df, pair, results>>

AddConfSignal ==
    /\ out.op = "none"
    /\ Len(signals) < MaxConfSignals
    /\ \E s \in ConfInputs : signals' = Append(signals, s)
    /\ UNCHANGED <<out, df, pair, results>>

CallBias ==
    /\ out' = [op |-> "bias", arg |-> <<>>, result |-> get_market_bias(signals)]
    /\ UNCHANGED <<signals, df, pair, results>>

CallFilter ==
    /\ \E m \in MinStrengths :
          out' = [op |-> "filter", arg |-> RInt(m),
                  result |-> filter_signals_by_strength(signals, RInt(m))]
    /\ UNCHANGED <<signals, df, pair, results>>

CallConfluence ==
    /\ \E tol \in PriceTolerances :
          out' = [op |-> "confluence", arg |-> tol,
                  result |-> get_confluence_signals(signals, tol)]
    /\ UNCHANGED <<signals, df, pair, results>>

(***************************************************************************)
(* _find_equal_levels on lists of swing highs: the list is built in        *)
(* signals, one swing every six candles, which puts no swing in the window *)
(* of another.                                                             *)
(***************************************************************************)
\* the prices of the swing highs, in units: 1.0000, at which the tolerance is
\* exactly 2 units, with 1.0002 on it and 1.0003 past it, and the four highs
\* of the documented example
LevelPrices == {10000, 10002, 10003, 11000, 11001, 11050, 11051}

\* the candles between two swing points of a list
SwingSpacing == swing_window + 1

AddSwingHigh ==
    /\ out.op = "none"
    /\ Len(signals) < MaxSwings
    /\ \E price \in LevelPrices :
          signals' = Append(signals,
                        SwingPoint("high", price,
                                   swing_window + SwingSpacing * Len(signals),
                                   swing_window + SwingSpacing * Len(signals)))
    /\ UNCHANGED <<out, df, pair, results>>

CallEqualLevels ==
    /\ out.op = "none"
    /\ out' = [op |-> "_find_equal_levels", arg |-> signals,
               result |-> _find_equal_levels(signals)]
    /\ UNCHANGED <<signals, df, pair, results>>

NextLevels == AddSwingHigh \/ CallEqualLevels

(***************************************************************************)
(* The frames analyze is tried on.  A frame is built run by run: a run is  *)
(* RunLen candles of one body, each opening at the close before it, the    *)
(* first after a gap; every candle has a wick of one pip at both ends and  *)
(* the last of a run a wick of two pips in the run's direction.  Candles   *)
(* are one hour apart.  The datetime of one candle may be malformed.       *)
(***************************************************************************)
Pairs == {"EURUSD", "USDJPY"}

\* a pip of the pair in price units: pip_value(pair) * UnitsPerPrice
PipUnits(p) == IF p \in JPYPairs THEN 100 ELSE 1

\* the close the first candle opens at, in price units
BaseUnits(p) == IF p \in JPYPairs THEN 1500000 ELSE 11000

\* gap and body of a run, in pips
Shapes == {<<0, -6>>, <<0, 0>>, <<0, 6>>, <<-18, 6>>, <<18, -6>>}

\* the k-th candle of a run appended to a frame of n candles closing at
\* prev_close
RunCandle(prev_close, n, shape, k, pip) ==
    LET open == prev_close + (shape[1] + (k - 1) * shape[2]) * pip
        close == open + shape[2] * pip
        up == IF k = RunLen /\ shape[2] > 0 THEN 2 ELSE 1
        down == IF k = RunLen /\ shape[2] < 0 THEN 2 ELSE 1
    IN  Candle(n + k - 1, open, MaxInt(open, close) + up * pip,
               MinInt(open, close) - down * pip, close,
               100 + 50 * Abs(shape[2]))

Run(frame, p, shape) ==
    LET prev_close == IF frame = <<>> THEN BaseUnits(p)
                      ELSE frame[Len(frame)].close
    IN  [k \in 1..RunLen |->
            RunCandle(prev_close, Len(frame), shape, k, PipUnits(p))]

HasMalformedDatetime(frame) ==
    \E k \in 1..Len(frame) : frame[k].datetime = NotATime

InitFrames ==
    /\ signals = <<>>
    /\ out = NoCall
    /\ df = <<>>
    /\ pair \in Pairs
    /\ results = <<>>

\* the caller's frame grows by a run
AppendRun ==
    /\ results = <<>>
    /\ Len(df) < (IF HasMalformedDatetime(df) THEN MaxMalformedRuns ELSE MaxRuns)
                    * RunLen
    /\ \E shape \in Shapes : df' = df \o Run(df, pair, shape)
    /\ UNCHANGED <<signals, out, pair, results>>

\* the datetime of the newest candle is no datetime
MalformDatetime ==
    /\ results = <<>>
    /\ df # <<>>
    /\ Len(df) <= MaxMalformedRuns * RunLen
    /\ ~HasMalformedDatetime(df)
    /\ df' = [df EXCEPT ![Len(df)].datetime = NotATime]
    /\ UNCHANGED <<signals, out, pair, results>>

\* a variant of the analyzer whose all_signals list lives on the object and
\* grows from call to call
CallAnalyze_Accumulating(earlier, frame, p) ==
    IF earlier = <<>> THEN analyze(frame, p)
    ELSE [analyze(frame, p) EXCEPT
             !.all_signals = earlier[Len(earlier)].all_signals \o @]

\* analyzer.analyze(df, pair) on an analyzer that has returned the dictionaries
\* of earlier: results and every detector's signals list are created by the
\* call, the analyzers hold their configuration only
CallAnalyze(earlier, frame, p) == analyze(frame, p)

\* the caller calls analyze, again on the same frame and pair
Analyze ==
    /\ Len(results) < MaxCalls
    /\ results' = Append(results, CallAnalyze(results, df, pair))
    /\ UNCHANGED <<signals, out, df, pair>>

NextFrames == AppendRun \/ MalformDatetime \/ Analyze

(***************************************************************************)
(* The detectors called one at a time on the caller's frame: out holds the *)
(* call, its argument and what it returned.                                *)
(***************************************************************************)
\* the windows _identify_swing_points is called with
SwingWindows == 1..swing_window

\* the frame grows by a run until a detector is called on it
GrowFrame ==
    /\ out = NoCall
    /\ AppendRun

CallSwingPoints ==
    /\ out = NoCall
    /\ \E window \in SwingWindows :
          out' = [op |-> "_identify_swing_points", arg |-> window,
                  result |-> _identify_swing_points(df, window)]
    /\ UNCHANGED <<signals, df, pair, results>>

\* identify_structure_shifts on the frame; arg holds the swing points it
\* identifies on the way, none on a frame too short for it to look for them
CallStructureShifts ==
    /\ out = NoCall
    /\ out' = [op |-> "identify_structure_shifts",
               arg |-> IF Len(df) < lookback_period * 2 THEN <<>>
                       ELSE _identify_swing_points(df, swing_window),
               result |-> identify_structure_shifts(df, pair)]
    /\ UNCHANGED <<signals, df, pair, results>>

NextDetect == GrowFrame \/ CallSwingPoints

\* identify_liquidity_zones on the frame; arg holds the swing points it
\* identifies on the way, none on a frame too short for it to look for them
CallLiquidityZones ==
    /\ out = NoCall
    /\ out' = [op |-> "identify_liquidity_zones",
               arg |-> IF Len(df) < liquidity_min_candles THEN <<>>
                       ELSE _identify_swing_points(df, swing_window),
               result |-> identify_liquidity_zones(df, pair)]
    /\ UNCHANGED <<signals, df, pair, results>>

NextZones == GrowFrame \/ CallLiquidityZones

(***************************************************************************)
(* The detectors called on the first n candles of the caller's frame, a    *)
(* series too short for the detector: out holds the call, the series and   *)
(* what the call returned.                                                 *)
(***************************************************************************)
\* the shortest frame identify_fvgs scans
fvg_min_candles == 3

\* the frame grows by a run, or the datetime of its newest candle is none
GrowAnyFrame == out = NoCall /\ (AppendRun \/ MalformDatetime)

\* the lengths below the minimum that the frame has candles for
ShortLengths(frame, minimum) == 0..MinInt(Len(frame), minimum - 1)

CallShortFvgs ==
    /\ out = NoCall
    /\ \E n \in ShortLengths(df, fvg_min_candles) :
          out' = [op |-> "identify_fvgs", arg |-> Slice(df, 0, n),
                  result |-> identify_fvgs(Slice(df, 0, n), pair)]
    /\ UNCHANGED <<signals, df, pair, results>>

CallShortOrderBlocks ==
    /\ out = NoCall
    /\ \E n \in ShortLengths(df, ob_min_candles) :
          out' = [op |-> "identify_order_blocks", arg |-> Slice(df, 0, n),
                  result |-> identify_order_blocks(Slice(df, 0, n), pair)]
    /\ UNCHANGED <<signals, df, pair, results>>

\* a series of fewer than 2 * lookback_period candles, or the whole frame
\* when it has fewer than min_swing_points swing points
CallShortStructureShifts ==
    /\ out = NoCall
    /\ \E n \in ShortLengths(df, lookback_period * 2) \cup {Len(df)} :
          /\ n >= lookback_period * 2 =>
                Len(_identify_swing_points(df, swing_window)) < min_swing_points
          /\ out' = [op |-> "identify_structure_shifts", arg |-> Slice(df, 0, n),
                     result |-> identify_structure_shifts(Slice(df, 0, n), pair)]
    /\ UNCHANGED <<signals, df, pair, results>>

CallShortLiquidityZones ==
    /\ out = NoCall
    /\ \E n \in ShortLengths(df, liquidity_min_candles) :
          out' = [op |-> "identify_liquidity_zones", arg |-> Slice(df, 0, n),
                  result |-> identify_liquidity_zones(Slice(df, 0, n), pair)]
    /\ UNCHANGED <<signals, df, pair, results>>

CallShortSwingPoints ==
    /\ out = NoCall
    /\ \E n \in ShortLengths(df, 2 * swing_window + 1) :
          out' = [op |-> "_identify_swing_points", arg |-> Slice(df, 0, n),
                  result |-> Returned(_identify_swing_points(Slice(df, 0, n),
                                                             swing_window))]
    /\ UNCHANGED <<signals, df, pair, results>>

NextShort ==
    \/ GrowAnyFrame
    \/ CallShortFvgs
    \/ CallShortOrderBlocks
    \/ CallShortStructureShifts
    \/ CallShortLiquidityZones
    \/ CallShortSwingPoints

(***************************************************************************)
(* Frames with rows whose price fields hold no numbers, and the scans of   *)
(* the detectors on them.                                                  *)
(***************************************************************************)
\* the rows of the frame whose prices are no numbers
BrokenRows(frame) == {k \in 1..Len(frame) : ~frame[k].ok}

\* the prices of the newest candle are no numbers
MalformRow ==
    /\ out = NoCall
    /\ results = <<>>
    /\ df # <<>>
    /\ ~HasMalformedDatetime(df)
    /\ Cardinality(BrokenRows(df)) < MaxBrokenRows
    /\ df[Len(df)].ok
    /\ df' = [df EXCEPT ![Len(df)].ok = FALSE]
    /\ UNCHANGED <<signals, out, pair, results>>

CallFvgsOnFrame ==
    /\ out = NoCall
    /\ Len(df) <= MaxScanRuns * RunLen
    /\ out' = [op |-> "identify_fvgs", arg |-> df,
               result |-> identify_fvgs(df, pair)]
    /\ UNCHANGED <<signals, df, pair, results>>

CallOrderBlocksOnFrame ==
    /\ out = NoCall
    /\ Len(df) <= MaxScanRuns * RunLen
    /\ out' = [op |-> "identify_order_blocks", arg |-> df,
               result |-> identify_order_blocks(df, pair)]
    /\ UNCHANGED <<signals, df, pair, results>>

CallSwingPointsOnFrame ==
    /\ out = NoCall
    /\ Len(df) <= MaxScanRuns * RunLen
    /\ out' = [op |-> "_identify_swing_points", arg |-> df,
               result |-> Returned(_identify_swing_points(df, swing_window))]
    /\ UNCHANGED <<signals, df, pair, results>>

CallStructureShiftsOnFrame ==
    /\ out = NoCall
    /\ out' = [op |-> "identify_structure_shifts", arg |-> df,
               result |-> identify_structure_shifts(df, pair)]
    /\ UNCHANGED <<signals, df, pair, results>>

NextBroken ==
    \/ GrowFrame
    \/ MalformRow
    \/ CallFvgsOnFrame
    \/ CallOrderBlocksOnFrame
    \/ CallSwingPointsOnFrame
    \/ CallStructureShiftsOnFrame

(***************************************************************************)
(* The four detectors called on frames in which a row is malformed: the    *)
(* value of its datetime is no datetime, or its price fields hold no       *)
(* numbers.                                                                *)
(***************************************************************************)
NextMalformed ==
    \/ GrowAnyFrame
    \/ MalformRow
    \/ CallFvgsOnFrame
    \/ CallOrderBlocksOnFrame
    \/ CallStructureShiftsOnFrame
    \/ CallLiquidityZones

(***************************************************************************)
(* The operations of SmartMoneyAnalyzer called on the caller's objects: a  *)
(* frame of runs for analyze, a list of signals for the list operations.   *)
(* out.arg holds the objects as they are handed over, df and signals the   *)
(* objects as the call leaves them.                                        *)
(***************************************************************************)
\* the caller builds a frame for analyze
GrowFrameForAnalyze ==
    /\ signals = <<>>
    /\ GrowFrame

\* the caller builds a list of signals for a list operation
AddSignalForCall ==
    /\ df = <<>>
    /\ AddConfSignal

\* what a call of analyze on the frame hands back, given what the detectors
\* return: the dictionary with the content of the list behind each key
AnalyzeCall(frame, fvg, ob, ms, lz) ==
    [op |-> "analyze", arg |-> [df |-> frame, signals |-> <<>>],
     result |-> ResultsOfLists(ListsOfAnalyze(fvg, ob, ms, lz))]

\* analyze reads the frame: no statement of lines 764-807 or of the
\* detectors assigns to it
CallAnalyzeOnFrame ==
    /\ out = NoCall
    /\ signals = <<>>
    /\ df # <<>>
    /\ out' = AnalyzeCall(df, identify_fvgs(df, pair),
                          identify_order_blocks(df, pair),
                          identify_structure_shifts(df, pair),
                          identify_liquidity_zones(df, pair))
    /\ UNCHANGED <<signals, df, pair, results>>

\* get_market_bias reads the signals of the list
CallBiasOnList ==
    /\ out = NoCall
    /\ df = <<>>
    /\ out' = [op |-> "get_market_bias", arg |-> [df |-> df, signals |-> signals],
               result |-> get_market_bias(signals)]
    /\ UNCHANGED <<signals, df, pair, results>>

\* filter_signals_by_strength builds a new list of the signals it keeps
CallFilterOnList ==
    /\ out = NoCall
    /\ df = <<>>
    /\ \E m \in MinStrengths :
          out' = [op |-> "filter_signals_by_strength",
                  arg |-> [df |-> df, signals |-> signals],
                  result |-> filter_signals_by_strength(signals, RInt(m))]
    /\ UNCHANGED <<signals, df, pair, results>>

\* get_confluence_signals builds new lists of the signals it groups and
\* sorts its own list of groups
CallConfluenceOnList ==
    /\ out = NoCall
    /\ df = <<>>
    /\ \E tol \in PriceTolerances :
          out' = [op |-> "get_confluence_signals",
                  arg |-> [df |-> df, signals |-> signals],
                  result |-> get_confluence_signals(signals, tol)]
    /\ UNCHANGED <<signals, df, pair, results>>

NextEffects ==
    \/ GrowFrameForAnalyze
    \/ AddSignalForCall
    \/ CallAnalyzeOnFrame
    \/ CallBiasOnList
    \/ CallFilterOnList
    \/ CallConfluenceOnList

(***************************************************************************)
(* Two calls of analyze on one SmartMoneyAnalyzer, on different series,    *)
(* running at the same time.  While they run, out.arg holds the two series *)
(* and out.result the two calls: pc is the step a call is at (0 to 3 the   *)
(* detector it calls next, 4 the concatenation and the sort, 5 the return, *)
(* 6 returned), results the dictionary of the call, a local of analyze,    *)
(* and place the position of its dictionary among the returned ones.  The  *)
(* analyzer holds the four detectors, which hold their parameters.         *)
(***************************************************************************)
\* the keys of results in the order analyze assigns them
DetectorKeys ==
    <<"fair_value_gaps", "order_blocks", "market_structure", "liquidity_zones">>

\* a call that has built its results (lines 766-773)
NewCall == [pc |-> 0, results |-> EmptyResults, place |-> 0]

\* the detector call of step pc on a series
DetectorOfStep(pc, series, p) ==
    CASE pc = 0 -> identify_fvgs(series, p)
      [] pc = 1 -> identify_order_blocks(series, p)
      [] pc = 2 -> identify_structure_shifts(series, p)
      [] pc = 3 -> identify_liquidity_zones(series, p)

\* a variant in which results is an attribute of the analyzer, one
\* dictionary for the two calls
AssignResult_OnAnalyzer(calls, i, key, list) ==
    [c \in 1..2 |-> [calls[c] EXCEPT !.results[key] = list]]

\* results[key] = list in call i: results is a local of the call
AssignResult(calls, i, key, list) ==
    [calls EXCEPT ![i].results[key] = list]

\* call i after the detector of its step has returned or raised: an
\* exception ends the try block and the call goes on to return
AfterDetector(calls, i, returned) ==
    IF returned.raised THEN [calls EXCEPT ![i].pc = 5]
    ELSE [AssignResult(calls, i, DetectorKeys[calls[i].pc + 1], returned.signals)
              EXCEPT ![i].pc = @ + 1]

\* call i after the concatenation of its four lists and the sort
AfterCombine(calls, i) ==
    LET own == calls[i].results
        sorted == SortAllSignals(own.fair_value_gaps \o own.order_blocks
                                     \o own.market_structure
                                     \o own.liquidity_zones)
    IN  IF sorted.raised THEN [calls EXCEPT ![i].pc = 5]
        ELSE [AssignResult(calls, i, "all_signals", sorted.signals)
                  EXCEPT ![i].pc = 5]

\* two callers call analyze, one with the frame and one with its first runs
StartCalls ==
    /\ out = NoCall
    /\ results = <<>>
    /\ Len(df) <= MaxPairRuns * RunLen
    /\ \E runs \in 1..((Len(df) \div RunLen) - 1) :
          out' = [op |-> "analyze", arg |-> <<df, Slice(df, 0, runs * RunLen)>>,
                  result |-> <<NewCall, NewCall>>]
    /\ UNCHANGED <<signals, df, pair, results>>

\* a call runs the detector of its step
DetectorStep ==
    /\ out.op = "analyze"
    /\ \E i \in 1..2 :
          /\ out.result[i].pc \in 0..3
          /\ out' = [out EXCEPT
                        !.result = AfterDetector(out.result, i,
                                      DetectorOfStep(out.result[i].pc,
                                                     out.arg[i], pair))]
    /\ UNCHANGED <<signals, df, pair, results>>

\* a call concatenates and sorts its lists
CombineStep ==
    /\ out.op = "analyze"
    /\ \E i \in 1..2 :
          /\ out.result[i].pc = 4
          /\ out' = [out EXCEPT !.result = AfterCombine(out.result, i)]
    /\ UNCHANGED <<signals, df, pair, results>>

\* a call returns its results
ReturnStep ==
    /\ out.op = "analyze"
    /\ \E i \in 1..2 :
          /\ out.result[i].pc = 5
          /\ results' = Append(results, out.result[i].results)
          /\ out' = [out EXCEPT !.result[i].pc = 6,
                                !.result[i].place = Len(results) + 1]
    /\ UNCHANGED <<signals, df, pair>>

NextPair ==
    \/ GrowAnyFrame
    \/ StartCalls
    \/ DetectorStep
    \/ CombineStep
    \/ ReturnStep

(***************************************************************************)
(* The two strength scores called on candles and contexts with zero        *)
(* denominators: candles whose high is their low, contexts whose volumes   *)
(* are all 0.  df holds the context, built candle by candle.               *)
(***************************************************************************)
\* the candles of a context: a candle without range and without volume, a
\* green candle without volume and a green candle with volume
ContextCandles ==
    {Candle(0, 11000, 11000, 11000, 11000, 0),
     Candle(0, 11000, 11010, 10998, 11008, 0),
     Candle(0, 11000, 11010, 10998, 11008, 200)}

\* the candles that are scored: the candles of a context, a candle without
\* range that has volume and a red candle
ScoredCandles ==
    ContextCandles \union {Candle(0, 11000, 11000, 11000, 11000, 100),
                           Candle(0, 11008, 11010, 10998, 11000, 100)}

\* the gaps that are scored, in pips
ScoredGaps == {3, 20}

AddContextCandle ==
    /\ out = NoCall
    /\ Len(df) < MaxContext
    /\ \E candle \in ContextCandles :
          df' = Append(df, [candle EXCEPT !.datetime = Len(df)])
    /\ UNCHANGED <<signals, out, pair, results>>

CallFvgStrength ==
    /\ out = NoCall
    /\ \E candle \in ScoredCandles, gap_pips \in ScoredGaps :
          out' = [op |-> "_calculate_fvg_strength",
                  arg |-> [candle |-> candle, gap_pips |-> RInt(gap_pips),
                           context |-> df],
                  result |-> _calculate_fvg_strength(RInt(gap_pips), candle, df)]
    /\ UNCHANGED <<signals, df, pair, results>>

\* the candles after the order block are the last of the context, none, one
\* or confirmation_candles of them
CallObStrength ==
    /\ out = NoCall
    /\ \E candle \in ScoredCandles, direction \in {"bullish", "bearish"},
          n \in 0..MinInt(confirmation_candles, Len(df)) :
          out' = [op |-> "_calculate_ob_strength",
                  arg |-> [candle |-> candle, direction |-> direction,
                           future_candles |-> Slice(df, Len(df) - n, Len(df)),
                           context |-> df],
                  result |-> _calculate_ob_strength(candle,
                                 Slice(df, Len(df) - n, Len(df)), df, direction)]
    /\ UNCHANGED <<signals, df, pair, results>>

NextScores == AddContextCandle \/ CallFvgStrength \/ CallObStrength

(***************************************************************************)
(* Frames for identify_structure_shifts: runs of RunLen candles without    *)
(* gaps.  The first ImpulseLen candles of a run have one body, the last    *)
(* candle another and the candles between them a third, so that a frame    *)
(* has stairs (peaks with a shallow dip between them, which give swing     *)
(* highs and no swing low) as well as zigzags.                             *)
(***************************************************************************)
\* the bodies of a run, in pips: of its first ImpulseLen candles, of its last
\* candle and of the candles between; a stair up and down, a fall, a rise, a
\* crash and a surge
StructureProfiles ==
    {<<6, -1, 1>>, <<-6, 1, -1>>, <<-6, -6, -6>>, <<6, 6, 6>>, <<-20, 1, 1>>,
     <<20, -1, -1>>}

\* the pips between the close before a run and the close of its k-th candle
ProfileMove(profile, k) ==
    IF k <= ImpulseLen THEN k * profile[1]
    ELSE IF k < RunLen THEN ImpulseLen * profile[1] + (k - ImpulseLen) * profile[2]
    ELSE ImpulseLen * profile[1] + (RunLen - 1 - ImpulseLen) * profile[2]
            + profile[3]

\* the k-th candle of a run appended to a frame of n candles closing at
\* prev_close: wicks of one pip, two pips on the last candle of the impulse in
\* the direction of the impulse
ProfileCandle(prev_close, n, profile, k, pip) ==
    LET open == prev_close + ProfileMove(profile, k - 1) * pip
        close == prev_close + ProfileMove(profile, k) * pip
        up == IF k = ImpulseLen /\ profile[1] > 0 THEN 2 ELSE 1
        down == IF k = ImpulseLen /\ profile[1] < 0 THEN 2 ELSE 1
    IN  Candle(n + k - 1, open, MaxInt(open, close) + up * pip,
               MinInt(open, close) - down * pip, close, 100)

ProfileRun(frame, p, profile) ==
    LET prev_close == IF frame = <<>> THEN BaseUnits(p)
                      ELSE frame[Len(frame)].close
    IN  [k \in 1..RunLen |->
            ProfileCandle(prev_close, Len(frame), profile, k, PipUnits(p))]

GrowStructureFrame ==
    /\ out = NoCall
    /\ Len(df) < MaxRuns * RunLen
    /\ \E profile \in StructureProfiles : df' = df \o ProfileRun(df, pair, profile)
    /\ UNCHANGED <<signals, out, pair, results>>

NextStructure == GrowStructureFrame \/ CallStructureShifts

(***************************************************************************)
(* Frames for identify_fvgs: runs whose gaps and bodies sit on and around  *)
(* the thresholds of the detector, with candles one or four hours apart,   *)
(* and the three candles of the documented example.                        *)
(***************************************************************************)
\* gap and body of a run, in pips: after a flat run a gap of 18 leaves 4 pips
\* between candle 1 and candle 3 and a gap of 17 leaves 3, after a run in the
\* other direction one pip less; a body of 6 is 75% and a body of 3 is 60% of
\* the middle candle's range
GapShapes ==
    {<<0, -6>>, <<0, 0>>, <<0, 6>>, <<-18, 6>>, <<18, -6>>, <<-17, 6>>,
     <<17, -6>>, <<-12, 3>>, <<12, -3>>}

\* the hours between the candles of a run
CandleHours == {1, 4}

\* candle 1 with its low at 1.1000, a green middle candle whose body is 40 of
\* its 44 units, candle 3 with its high at 1.0950
ExampleGapFrame ==
    <<Candle(0, 11010, 11015, 11000, 11005, 100),
      Candle(1, 10900, 10942, 10898, 10940, 100),
      Candle(2, 10940, 10950, 10935, 10945, 100)>>

GapRun(frame, p, shape, hours) ==
    LET prev_close == IF frame = <<>> THEN BaseUnits(p)
                      ELSE frame[Len(frame)].close
        start == IF frame = <<>> THEN -hours ELSE frame[Len(frame)].datetime
    IN  [k \in 1..RunLen |->
            [RunCandle(prev_close, Len(frame), shape, k, PipUnits(p))
                EXCEPT !.datetime = start + hours * k]]

InitGaps ==
    /\ signals = <<>>
    /\ out = NoCall
    /\ df \in {<<>>, ExampleGapFrame}
    /\ pair \in Pairs
    /\ results = <<>>

\* the frame grows by a run; the frame of the example is taken as it is
GrowGapFrame ==
    /\ out = NoCall
    /\ df # ExampleGapFrame
    /\ Len(df) < MaxGapRuns * RunLen
    /\ \E shape \in GapShapes, hours \in CandleHours :
          df' = df \o GapRun(df, pair, shape, hours)
    /\ UNCHANGED <<signals, out, pair, results>>

CallFvgs ==
    /\ out = NoCall
    /\ out' = [op |-> "identify_fvgs", arg |-> pair,
               result |-> identify_fvgs(df, pair)]
    /\ UNCHANGED <<signals, df, pair, results>>

NextGaps == GrowGapFrame \/ CallFvgs

(***************************************************************************)
(* Frames for identify_order_blocks: short runs, so that frames of fewer   *)
(* than ob_min_candles candles have a reversal in them, whose reversals    *)
(* sit on and around min_size_pips, with candles far enough apart for the  *)
(* first of them to be older than max_age_hours.                           *)
(***************************************************************************)
\* gap and body of a run, in pips: after a run of bodies of 6 pips a run of
\* the other direction moves 6 pips past the last candle within two candles,
\* 5 when it opens 1 pip against its direction, 4 when it opens 2 against
BlockShapes ==
    {<<0, -6>>, <<0, 0>>, <<0, 6>>, <<-1, 6>>, <<-2, 6>>, <<1, -6>>, <<2, -6>>}

\* the k-th candle of a run that follows a candle closing at prev_close at
\* the time start: wicks of one pip
BlockCandle(prev_close, start, shape, k, pip) ==
    LET open == prev_close + (shape[1] + (k - 1) * shape[2]) * pip
        close == open + shape[2] * pip
    IN  Candle(start + BlockHours * k, open, MaxInt(open, close) + pip,
               MinInt(open, close) - pip, close, 100 + 50 * Abs(shape[2]))

BlockRun(frame, p, shape) ==
    LET prev_close == IF frame = <<>> THEN BaseUnits(p)
                      ELSE frame[Len(frame)].close
        start == IF frame = <<>> THEN -BlockHours ELSE frame[Len(frame)].datetime
    IN  [k \in 1..BlockRunLen |->
            BlockCandle(prev_close, start, shape, k, PipUnits(p))]

GrowBlockFrame ==
    /\ out = NoCall
    /\ Len(df) < MaxBlockRuns * BlockRunLen
    /\ \E shape \in BlockShapes : df' = df \o BlockRun(df, pair, shape)
    /\ UNCHANGED <<signals, out, pair, results>>

CallOrderBlocks ==
    /\ out = NoCall
    /\ out' = [op |-> "identify_order_blocks", arg |-> pair,
               result |-> identify_order_blocks(df, pair)]
    /\ UNCHANGED <<signals, df, pair, results>>

NextBlocks == GrowBlockFrame \/ CallOrderBlocks

NextBias == AddBiasSignal \/ CallBias \/ CallFilter

NextConf == AddConfSignal \/ CallConfluence

\* get_market_bias and filter_signals_by_strength on every list of BiasInputs
SpecBias == InitLists /\ [][NextBias]_vars

\* get_confluence_signals on every list of ConfInputs
SpecConf == InitLists /\ [][NextConf]_vars

\* analyze on every frame of runs
SpecFrames == InitFrames /\ [][NextFrames]_vars

\* identify_order_blocks on every frame of short runs around its threshold
SpecBlocks == InitFrames /\ [][NextBlocks]_vars

\* _find_equal_levels on every list of up to MaxSwings swing highs
SpecLevels == InitLists /\ [][NextLevels]_vars

\* identify_structure_shifts on every frame of stairs and zigzags
SpecStructure == InitFrames /\ [][NextStructure]_vars

\* identify_fvgs on every frame of runs around its thresholds
SpecGaps == InitGaps /\ [][NextGaps]_vars

\* each detector on every frame of runs whose datetimes are datetimes
SpecDetect == InitFrames /\ [][NextDetect]_vars

\* the calls of identify_liquidity_zones on frames of runs
SpecZones == InitFrames /\ [][NextZones]_vars

\* each detector on the series too short for it that begin a frame of runs
SpecShort == InitFrames /\ [][NextShort]_vars

\* the scans of the detectors on every frame of runs with malformed rows
SpecBroken == InitFrames /\ [][NextBroken]_vars

\* the four detectors on every frame of runs with a malformed row
SpecMalformed == InitFrames /\ [][NextMalformed]_vars

\* the operations of the analyzer on the caller's frames and lists
SpecEffects == InitFrames /\ [][NextEffects]_vars

\* two calls of analyze on one analyzer, their steps in every order
SpecPair == InitFrames /\ [][NextPair]_vars

\* the strength scores of gaps and order blocks on candles and contexts with
\* zero denominators
SpecScores == InitLists /\ [][NextScores]_vars

(***************************************************************************)
(* Properties of the aggregator's list operations.                         *)
(***************************************************************************)
\* the summed strength of the signals of one direction in the input list
WeightOf(direction) ==
    LET f[k \in 0..Len(signals)] ==
          IF k = 0 THEN RInt(0)
          ELSE LET prev == f[k - 1]
               IN  IF signals[k].direction = direction
                   THEN RAdd(prev, signals[k].strength) ELSE prev
    IN  f[Len(signals)]

TotalWeight == RAdd(WeightOf("bullish"), WeightOf("bearish"))

\* the share of one direction in the total weight, in percent
ShareOf(direction) ==
    RDiv(RMul(RInt(100), WeightOf(direction)), TotalWeight)

\* c is x rounded to one decimal place
RoundedToTenth(c, x) ==
    /\ 10 % c[2] = 0
    /\ RLe(RAbs(RSub(c, x)), Rat(1, 20))

BiasCalled == out.op = "bias" /\ TotalWeight # RInt(0)

\* C5 (as amended): for a non-zero total weight get_market_bias returns
\* BULLISH exactly when the bullish share is strictly above 60%, BEARISH
\* exactly when the bearish share is strictly above 60%, and NEUTRAL with
\* confidence 50 otherwise (a share of exactly 60% included); the confidence
\* of BULLISH and BEARISH is the share rounded to one decimal place; a
\* bullish weight four times the bearish weight (8.0 against 2.0) gives
\* BULLISH with confidence 80.
BiasFollowsShare ==
    BiasCalled =>
      LET r == out.result
          bs == ShareOf("bullish")
          es == ShareOf("bearish")
      IN  /\ r.bias \in {"BULLISH", "BEARISH", "NEUTRAL"}
          /\ (r.bias = "BULLISH") = RLt(RInt(60), bs)
          /\ (r.bias = "BEARISH") = RLt(RInt(60), es)
          /\ r.bias = "BULLISH" => RoundedToTenth(r.confidence, bs)
          /\ r.bias = "BEARISH" => RoundedToTenth(r.confidence, es)
          /\ r.bias = "NEUTRAL" => r.confidence = RInt(50)
          /\ bs = RInt(60) => r.bias = "NEUTRAL"
          /\ (WeightOf("bullish") = RMul(RInt(4), WeightOf("bearish")))
                => (r.bias = "BULLISH" /\ r.confidence = RInt(80))

\* C5 as claimed: the confidence of BULLISH and BEARISH equals the share
BiasConfidenceIsShare ==
    BiasCalled =>
      /\ out.result.bias = "BULLISH" => out.result.confidence = ShareOf("bullish")
      /\ out.result.bias = "BEARISH" => out.result.confidence = ShareOf("bearish")

\* C5's case: weights 160 against 40, the 8 : 2 of the example
BiasEightToTwo ==
    /\ BiasCalled
    /\ WeightOf("bullish") = RInt(160)
    /\ WeightOf("bearish") = RInt(40)
    /\ out.result.bias = "BULLISH"
    /\ out.result.confidence = RInt(80)

\* C6: whenever the total weight is 0 (an empty list, signals of strength 0,
\* signals whose direction is neither bullish nor bearish) get_market_bias
\* returns NEUTRAL with confidence 0; the division by the total is not
\* evaluated.
ZeroWeightIsNeutral ==
    (/\ out.op = "bias"
     /\ \A k \in 1..Len(signals) :
           \/ signals[k].strength = RInt(0)
           \/ signals[k].direction \notin {"bullish", "bearish"})
      => /\ out.result.bias = "NEUTRAL"
         /\ out.result.confidence = RInt(0)

\* C6's case: a non-empty list of total weight 0 holding a signal of
\* strength 0 and a signal of positive strength and no direction
ZeroWeightSeen ==
    /\ out.op = "bias"
    /\ TotalWeight = RInt(0)
    /\ \E k \in 1..Len(signals) :
          signals[k].direction = "bullish" /\ signals[k].strength = RInt(0)
    /\ \E k \in 1..Len(signals) :
          signals[k].direction = "neutral" /\ signals[k].strength = RInt(100)
    /\ out.result.bias = "NEUTRAL"

\* the positions of the input list whose strength is at least m
StrongEnough(m) == {k \in 1..Len(signals) : RLe(m, signals[k].strength)}

\* C7: filter_signals_by_strength(signals, m) returns exactly the signals
\* with strength >= m, each as often as it occurs and in the input's order:
\* the n-th kept position of the input is the n-th element of the result.
FilterKeepsExactly ==
    out.op = "filter" =>
      LET K == StrongEnough(out.arg)
      IN  /\ Len(out.result) = Cardinality(K)
          /\ \A k \in K :
                out.result[Cardinality({j \in K : j <= k})] = signals[k]

\* C7's case: a signal at the boundary is kept, a weaker one before it is
\* dropped and a stronger one follows
FilterBoundarySeen ==
    /\ out.op = "filter"
    /\ Len(signals) = 3
    /\ RLt(signals[1].strength, out.arg)
    /\ signals[2].strength = out.arg
    /\ RLt(out.arg, signals[3].strength)
    /\ out.result = <<signals[2], signals[3]>>

\* the positions of the input list that are members of a returned group
Members(g) == {g.idx[k] : k \in 1..Len(g.idx)}

ConfluenceCalled == out.op = "confluence"

\* signals i and j differ in price by less than the tolerance times the
\* smaller of their prices
CloseInPrice(i, j) ==
    RLt(RAbs(RSub(signals[i].price, signals[j].price)),
        RMul(out.arg, RMin(signals[i].price, signals[j].price)))

\* signal j lies within the tolerance times the price of signal a
NearAnchor(a, j) ==
    RLe(RAbs(RSub(signals[a].price, signals[j].price)),
        RMul(out.arg, signals[a].price))

\* i and j are members of one returned group
Together(i, j) ==
    \E n \in 1..Len(out.result) :
        i \in Members(out.result[n]) /\ j \in Members(out.result[n])

\* x is a member of a returned group whose anchor comes before position i
TakenBefore(i, x) ==
    \E n \in 1..Len(out.result) :
        out.result[n].idx[1] < i /\ x \in Members(out.result[n])

\* the summed strength of the members of a group
WeightOfMembers(g) ==
    LET f[k \in 0..Len(g.idx)] ==
          IF k = 0 THEN RInt(0)
          ELSE RAdd(f[k - 1], signals[g.idx[k]].strength)
    IN  f[Len(g.idx)]

\* the group's combined_strength is min(100, mean of its members' strengths
\* times 1.2)
BoostedMean(g) ==
    LET total == WeightOfMembers(g)
        boosted == RDiv(RMul(RInt(12), total), RInt(10 * Len(g.idx)))
    IN  g.combined_strength =
            (IF RLt(RInt(100), boosted) THEN RInt(100) ELSE boosted)

\* C8 (as amended): two signals whose prices differ by less than
\* price_tolerance times the smaller of their prices appear together in one
\* ConfluenceGroup unless one of them is a member of a group whose anchor
\* comes before both in the list; every group's combined_strength is
\* min(100, mean of its members' strengths * 1.2).
NearPairsShareGroup ==
    ConfluenceCalled =>
      /\ \A i, j \in 1..Len(signals) :
            (i < j /\ CloseInPrice(i, j)
               /\ ~TakenBefore(i, i) /\ ~TakenBefore(i, j))
              => Together(i, j)
      /\ \A n \in 1..Len(out.result) : BoostedMean(out.result[n])

\* C8 as claimed: any two signals that close in price appear together
AllNearPairsShareGroup ==
    ConfluenceCalled =>
      /\ \A i, j \in 1..Len(signals) :
            (i < j /\ CloseInPrice(i, j)) => Together(i, j)
      /\ \A n \in 1..Len(out.result) : BoostedMean(out.result[n])

\* C8's case: a near pair is grouped, with the cap of 100 reached
NearPairGrouped ==
    /\ ConfluenceCalled
    /\ \E i, j \in 1..Len(signals) :
          /\ i < j /\ CloseInPrice(i, j) /\ Together(i, j)
          /\ ~TakenBefore(i, i) /\ ~TakenBefore(i, j)
    /\ \E n \in 1..Len(out.result) : out.result[n].combined_strength = RInt(100)

\* the positions that open a group of the scan (returned or left alone):
\* those no returned group holds as a later member
Anchors ==
    {i \in 1..Len(signals) :
        \A n \in 1..Len(out.result) :
            i \in Members(out.result[n]) => out.result[n].idx[1] = i}

\* C9: get_confluence_signals groups greedily in list order: no signal is in
\* two groups; a group has at least 2 members, signal_count counts them, its
\* first member is its anchor, the others follow it in the list and lie
\* within price_tolerance * anchor price of it; an anchor takes every later
\* signal within its tolerance that no earlier anchor took, so a signal
\* compatible with several anchors is with the earliest.
GreedyGroups ==
    ConfluenceCalled =>
      /\ \A n, m \in 1..Len(out.result) :
            n # m => Members(out.result[n]) \cap Members(out.result[m]) = {}
      /\ \A n \in 1..Len(out.result) :
            LET g == out.result[n]
            IN  /\ Len(g.idx) >= 2
                /\ g.signal_count = Len(g.idx)
                /\ Len(g.signals) = Len(g.idx)
                /\ \A k \in 1..Len(g.idx) : g.signals[k] = signals[g.idx[k]]
                /\ \A k \in 2..Len(g.idx) :
                      /\ g.idx[k - 1] < g.idx[k]
                      /\ NearAnchor(g.idx[1], g.idx[k])
                      /\ \A a \in Anchors :
                            a < g.idx[1] => ~NearAnchor(a, g.idx[k])
      /\ \A a \in Anchors : \A j \in 1..Len(signals) :
            (a < j /\ NearAnchor(a, j) /\ ~TakenBefore(a, j)) => Together(a, j)

\* C9's case: a member of a group is also within the tolerance of a later
\* anchor, which is left without it
EarliestAnchorWon ==
    /\ ConfluenceCalled
    /\ \E n \in 1..Len(out.result) : \E j \in Members(out.result[n]) :
          \E a \in Anchors :
              /\ out.result[n].idx[1] < a
              /\ a < j
              /\ NearAnchor(a, j)
              /\ ~Together(a, j)

\* the number of members of a group with the given direction
CountOf(g, direction) ==
    Cardinality({k \in 1..Len(g.signals) : g.signals[k].direction = direction})

\* C10: a group's dominant_direction is bullish exactly when its bullish
\* members strictly outnumber its bearish members and bearish otherwise, a
\* tie included.
DominantIsStrictMajority ==
    ConfluenceCalled =>
      \A n \in 1..Len(out.result) :
          LET g == out.result[n]
          IN  /\ g.dominant_direction \in {"bullish", "bearish"}
              /\ (g.dominant_direction = "bullish")
                    = (CountOf(g, "bullish") > CountOf(g, "bearish"))

\* C10's case: a group of one bullish and one bearish member is bearish
TieIsBearish ==
    /\ ConfluenceCalled
    /\ \E n \in 1..Len(out.result) :
          /\ CountOf(out.result[n], "bullish") = 1
          /\ CountOf(out.result[n], "bearish") = 1
          /\ out.result[n].dominant_direction = "bearish"


(***************************************************************************)
(* Properties of analyze, read off the dictionary it has returned.         *)
(***************************************************************************)
Analyzed == results # <<>>

\* the four per-kind lists of a returned dictionary, concatenated
PerKind(r) ==
    r.fair_value_gaps \o r.order_blocks \o r.market_structure \o r.liquidity_zones

\* the signals of all kinds analyze has returned
Returned_signals == IF Analyzed THEN PerKind(results[1]) ELSE <<>>

HasKind(xs, kind) == \E k \in 1..Len(xs) : xs[k].signal_type = kind

\* C1: every signal any detector has produced, whatever the candles and the
\* pair, has a strength of at least 0 and at most 100.
StrengthInRange ==
    \A k \in 1..Len(Returned_signals) :
        /\ RLe(RInt(0), Returned_signals[k].strength)
        /\ RLe(Returned_signals[k].strength, RInt(100))

\* C1 witness: analyze has returned an equal-highs signal of five touches or
\* more, whose strength the cap holds at 100, next to a signal scored by
\* _calculate_structure_strength.
StrengthAtCap ==
    /\ \E k \in 1..Len(Returned_signals) :
          /\ Returned_signals[k].signal_type = "Liquidity_EqualHighs"
          /\ Returned_signals[k].strength = RInt(100)
    /\ HasKind(Returned_signals, "MSS_Bullish")

\* xs holds the elements of ys, each as often as ys holds it
IsPermutation(xs, ys) ==
    /\ Len(xs) = Len(ys)
    /\ \A k \in 1..Len(ys) :
          Cardinality({j \in 1..Len(xs) : xs[j] = ys[k]})
              = Cardinality({j \in 1..Len(ys) : ys[j] = ys[k]})

\* most recent first
NonIncreasingByTime(xs) ==
    \A k \in 1..(Len(xs) - 1) : xs[k].timestamp >= xs[k + 1].timestamp

SomeDetectorRaises ==
    \/ identify_fvgs(df, pair).raised
    \/ identify_order_blocks(df, pair).raised
    \/ identify_structure_shifts(df, pair).raised
    \/ identify_liquidity_zones(df, pair).raised

\* C2: when one of the four detectors raises during analyze, the other three
\* are still run and their lists returned, the list of the failing one is
\* empty, and all_signals holds the signals of the others, most recent first.
DetectorFailureIsolated ==
    Analyzed /\ SomeDetectorRaises =>
        LET r == results[1]
        IN  /\ r.fair_value_gaps = identify_fvgs(df, pair).signals
            /\ r.order_blocks = identify_order_blocks(df, pair).signals
            /\ r.market_structure = identify_structure_shifts(df, pair).signals
            /\ r.liquidity_zones = identify_liquidity_zones(df, pair).signals
            /\ IsPermutation(r.all_signals, PerKind(r))
            /\ NonIncreasingByTime(r.all_signals)

\* C3: all_signals is a permutation of the concatenation of the four
\* per-kind lists analyze returns, ordered by timestamp, most recent first.
AllSignalsIsSortedUnion ==
    Analyzed =>
        /\ IsPermutation(results[1].all_signals, PerKind(results[1]))
        /\ NonIncreasingByTime(results[1].all_signals)

\* the datetimes of the candles
CandleTimes == {df[k].datetime : k \in 1..Len(df)}

\* C4: the timestamp of every signal any detector has returned, ChoCh and
\* equal highs and lows included, is the datetime of a candle of the frame.
TimestampIsOfCandle ==
    \A k \in 1..Len(Returned_signals) :
        Returned_signals[k].timestamp \in CandleTimes

\* C4 witness: analyze has returned a ChoCh signal and an equal-levels signal
\* next to a gap and an order block.
AllKindsStamped ==
    /\ HasKind(Returned_signals, "ChoCh_Bearish")
    /\ HasKind(Returned_signals, "Liquidity_EqualHighs")
    /\ HasKind(Returned_signals, "FVG_Bearish")
    /\ HasKind(Returned_signals, "OB_Bullish")


\* C11: the list get_confluence_signals returns is ordered by
\* combined_strength, strongest first, whatever the list it is given.
ConfluencesStrongestFirst ==
    ConfluenceCalled =>
      \A n \in 1..(Len(out.result) - 1) :
          RLe(out.result[n + 1].combined_strength, out.result[n].combined_strength)

\* C11's case: the group returned first was appended after the group returned
\* second (its anchor comes later in the list) and is strictly stronger
StrongerGroupMovedUp ==
    /\ ConfluenceCalled
    /\ Len(out.result) >= 2
    /\ out.result[1].idx[1] > out.result[2].idx[1]
    /\ RLt(out.result[2].combined_strength, out.result[1].combined_strength)

SwingCalled == out.op = "_identify_swing_points"

\* the high of candle i is the highest of the candles i-w .. i+w
IsWindowHigh(frame, i, w) ==
    \A j \in (i - w)..(i + w) : Row(frame, j).high <= Row(frame, i).high

\* the low of candle i is the lowest of the candles i-w .. i+w
IsWindowLow(frame, i, w) ==
    \A j \in (i - w)..(i + w) : Row(frame, j).low >= Row(frame, i).low

\* the swing points of a list that sit at candle i
SwingsAt(swings, i) == {k \in 1..Len(swings) : swings[k].index = i}

\* C13: _identify_swing_points with window w returns swing points at indices
\* w <= i < n-w only, in strictly increasing index order (so at most one per
\* index): a high with the candle's high where that high is the highest of
\* i-w..i+w, otherwise a low with the candle's low where that low is the lowest
\* of i-w..i+w, otherwise none.
SwingPointsFollowRule ==
    SwingCalled =>
      LET w == out.arg
          swings == out.result
      IN  /\ \A k \in 1..Len(swings) :
                w <= swings[k].index /\ swings[k].index < Len(df) - w
          /\ \A k \in 1..(Len(swings) - 1) : swings[k].index < swings[k + 1].index
          /\ \A i \in w..(Len(df) - w - 1) :
                IF IsWindowHigh(df, i, w)
                THEN \E k \in SwingsAt(swings, i) :
                        swings[k].type = "high" /\ swings[k].price = Row(df, i).high
                ELSE IF IsWindowLow(df, i, w)
                THEN \E k \in SwingsAt(swings, i) :
                        swings[k].type = "low" /\ swings[k].price = Row(df, i).low
                ELSE SwingsAt(swings, i) = {}

\* C13's case: of the indices the detector looked at, one is both the highest
\* and the lowest of its window and came out as a high, one is a low only and
\* one is neither
SwingOfEveryCase ==
    /\ SwingCalled
    /\ \E i, j, l \in out.arg..(Len(df) - out.arg - 1) :
          /\ IsWindowHigh(df, i, out.arg) /\ IsWindowLow(df, i, out.arg)
          /\ \E k \in SwingsAt(out.result, i) : out.result[k].type = "high"
          /\ ~IsWindowHigh(df, j, out.arg) /\ IsWindowLow(df, j, out.arg)
          /\ \E k \in SwingsAt(out.result, j) : out.result[k].type = "low"
          /\ ~IsWindowHigh(df, l, out.arg) /\ ~IsWindowLow(df, l, out.arg)
          /\ SwingsAt(out.result, l) = {}

\* the highs of the frame rise from every candle to the next
StrictlyIncreasingHighs(frame) ==
    \A k \in 1..(Len(frame) - 1) : frame[k].high < frame[k + 1].high

\* C14: on a frame whose highs are strictly increasing the detector returns no
\* swing high, for every window and every length.
NoSwingHighOnRisingHighs ==
    (SwingCalled /\ StrictlyIncreasingHighs(df)) =>
        \A k \in 1..Len(out.result) : out.result[k].type # "high"

\* C14's case: the detector ran over indices of a frame of rising highs
RisingHighsScanned ==
    /\ SwingCalled
    /\ StrictlyIncreasingHighs(df)
    /\ Len(df) > 2 * out.arg
    /\ out.arg > 1
    /\ \A k \in 1..Len(out.result) : out.result[k].type = "low"

FvgsCalled == out.op = "identify_fvgs" /\ ~out.result.raised

\* the datetime of the last candle of the frame
LastTime(frame) == frame[Len(frame)].datetime

\* candle i is within the age window of the frame
InAgeWindow(frame, i) == LastTime(frame) - Row(frame, i).datetime <= max_age_hours

\* the body of the candle is strictly more than 60% of its range, which is
\* not zero
StrongBody(candle) ==
    /\ candle.high - candle.low > 0
    /\ 10 * Abs(candle.close - candle.open) > 6 * (candle.high - candle.low)

\* the conditions of a bullish gap at candle i: the low of candle i-2 is above
\* the high of candle i by at least min_gap_pips, the middle candle is green
\* and strong
BullishGapAt(frame, i, p) ==
    /\ Row(frame, i - 2).low > Row(frame, i).high
    /\ Row(frame, i - 2).low - Row(frame, i).high >= min_gap_pips * PipUnits(p)
    /\ Row(frame, i - 1).close > Row(frame, i - 1).open
    /\ StrongBody(Row(frame, i - 1))

\* the mirror conditions of a bearish gap at candle i
BearishGapAt(frame, i, p) ==
    /\ Row(frame, i - 2).high < Row(frame, i).low
    /\ Row(frame, i).low - Row(frame, i - 2).high >= min_gap_pips * PipUnits(p)
    /\ Row(frame, i - 1).close < Row(frame, i - 1).open
    /\ StrongBody(Row(frame, i - 1))

\* the signals of a list with the type kind and the timestamp of candle i
GapSignalsAt(xs, kind, frame, i) ==
    {k \in 1..Len(xs) :
        xs[k].signal_type = kind /\ xs[k].timestamp = Row(frame, i).datetime}

\* the middle of two prices given in units
Midpoint(a, b) == Rat(a + b, 2 * UnitsPerPrice)

\* C15: for every candle i >= 2 within the age window identify_fvgs returns an
\* FVG_Bullish at candle i exactly when low[i-2] > high[i], the gap is at
\* least min_gap_pips and candle i-1 is green with a body strictly above 60%
\* of its non-zero range, and an FVG_Bearish exactly when the mirror holds;
\* the price of the signal is the midpoint of the gap.  On the example (low of
\* candle 1 at 1.1000, high of candle 3 at 1.0950, strong green middle candle)
\* it returns exactly one signal, an FVG_Bullish at 1.09750 whose strength
\* holds 25 for the gap.
GapSignalIffConditions ==
    FvgsCalled =>
      LET xs == out.result.signals
      IN  /\ \A i \in 2..(Len(df) - 1) :
                InAgeWindow(df, i) =>
                  /\ BullishGapAt(df, i, pair)
                       <=> GapSignalsAt(xs, "FVG_Bullish", df, i) # {}
                  /\ BearishGapAt(df, i, pair)
                       <=> GapSignalsAt(xs, "FVG_Bearish", df, i) # {}
                  /\ \A k \in GapSignalsAt(xs, "FVG_Bullish", df, i) :
                        xs[k].price = Midpoint(Row(df, i - 2).low, Row(df, i).high)
                  /\ \A k \in GapSignalsAt(xs, "FVG_Bearish", df, i) :
                        xs[k].price = Midpoint(Row(df, i).low, Row(df, i - 2).high)
          /\ (df = ExampleGapFrame /\ pair = "EURUSD") =>
                /\ Len(xs) = 1
                /\ xs[1].signal_type = "FVG_Bullish"
                /\ xs[1].price = Rat(109750, 100000)
                /\ xs[1].strength =
                      RAdd(RInt(25),
                           RAdd(impulse_strength(df[2]), RAdd(RInt(15), Rat(25, 2))))

\* C15's case: the frame has a gap of each direction that meets the conditions
\* and was returned, a gap of exactly min_gap_pips among them, and a gap wide
\* enough whose middle candle has a body of exactly 60%, which was not
GapsOnAndOffThreshold ==
    /\ FvgsCalled
    /\ \E i, j, l \in 2..(Len(df) - 1) :
          /\ InAgeWindow(df, i) /\ InAgeWindow(df, j) /\ InAgeWindow(df, l)
          /\ BullishGapAt(df, i, pair)
          /\ Row(df, i - 2).low - Row(df, i).high = min_gap_pips * PipUnits(pair)
          /\ GapSignalsAt(out.result.signals, "FVG_Bullish", df, i) # {}
          /\ BearishGapAt(df, j, pair)
          /\ GapSignalsAt(out.result.signals, "FVG_Bearish", df, j) # {}
          /\ Row(df, l - 2).low - Row(df, l).high >= min_gap_pips * PipUnits(pair)
          /\ ~StrongBody(Row(df, l - 1))
          /\ GapSignalsAt(out.result.signals, "FVG_Bullish", df, l) = {}

\* C15's example: identify_fvgs was called on the three candles of the example
ExampleGapFound ==
    /\ FvgsCalled
    /\ df = ExampleGapFrame
    /\ pair = "EURUSD"
    /\ Len(out.result.signals) = 1

\* candle i of the frame meets the conditions of a gap of either direction
GapAt(frame, i, p) == BullishGapAt(frame, i, p) \/ BearishGapAt(frame, i, p)

\* the hours between candle i and the last candle of the frame
AgeHours(frame, i) == LastTime(frame) - Row(frame, i).datetime

\* C16: no gap signal identify_fvgs returns is older than max_age_hours at the
\* last candle's timestamp, every detected gap whose age is at most
\* max_age_hours (exactly max_age_hours included) is returned, and the signals
\* come in the order of detection, the order of their candles.
GapsKeptUpToMaxAge ==
    FvgsCalled =>
      LET xs == out.result.signals
      IN  /\ \A k \in 1..Len(xs) : LastTime(df) - xs[k].timestamp <= max_age_hours
          /\ \A k \in 1..(Len(xs) - 1) : xs[k].timestamp < xs[k + 1].timestamp
          /\ \A i \in 2..(Len(df) - 1) :
                (GapAt(df, i, pair) /\ AgeHours(df, i) <= max_age_hours) =>
                    \E k \in 1..Len(xs) : xs[k].timestamp = Row(df, i).datetime

\* C16's case: of two gaps of the frame the one older than max_age_hours was
\* dropped and the one exactly max_age_hours old was returned
GapKeptAtMaxAge ==
    /\ FvgsCalled
    /\ Len(out.result.signals) = 1
    /\ \E i, j \in 2..(Len(df) - 1) :
          /\ GapAt(df, i, pair) /\ AgeHours(df, i) > max_age_hours
          /\ GapAt(df, j, pair) /\ AgeHours(df, j) = max_age_hours
          /\ out.result.signals[1].timestamp = Row(df, j).datetime

\* two gaps of one frame were both returned, in the order of their candles
TwoGapsKeptInOrder ==
    /\ FvgsCalled
    /\ Len(out.result.signals) = 2
    /\ \E i, j \in 2..(Len(df) - 1) :
          /\ i < j
          /\ GapAt(df, i, pair) /\ GapAt(df, j, pair)
          /\ out.result.signals[1].timestamp = Row(df, i).datetime
          /\ out.result.signals[2].timestamp = Row(df, j).datetime

BlocksCalled == out.op = "identify_order_blocks" /\ ~out.result.raised

\* the candles i+1 .. i+confirmation_candles of the frame
ConfirmationOf(frame, i) == Slice(frame, i + 1, i + 1 + confirmation_candles)

\* candle i is red and the highest high of its confirmation candles is at
\* least min_size_pips above its high
BullishBlockAt(frame, i, p) ==
    /\ Row(frame, i).close < Row(frame, i).open
    /\ MaxHigh(ConfirmationOf(frame, i)) - Row(frame, i).high
          >= min_size_pips * PipUnits(p)

\* candle i is green and the lowest low of its confirmation candles is at
\* least min_size_pips below its low
BearishBlockAt(frame, i, p) ==
    /\ Row(frame, i).close > Row(frame, i).open
    /\ Row(frame, i).low - MinLow(ConfirmationOf(frame, i))
          >= min_size_pips * PipUnits(p)

\* the signals of a list that carry the timestamp of candle i
SignalsAt(xs, frame, i) ==
    {k \in 1..Len(xs) : xs[k].timestamp = Row(frame, i).datetime}

\* what the claim says of the signals xs returned for a frame: at every candle
\* i with ob_window <= i < n - confirmation_candles an OB_Bullish priced at its
\* low exactly when it is a bullish block, an OB_Bearish priced at its high
\* exactly when it is a bearish block, at most one signal, and none elsewhere
BlocksFollowRule(xs, frame, p) ==
    /\ \A i \in ob_window..(Len(frame) - confirmation_candles - 1) :
          /\ Cardinality(SignalsAt(xs, frame, i)) <= 1
          /\ BullishBlockAt(frame, i, p) <=>
                \E k \in SignalsAt(xs, frame, i) :
                    /\ xs[k].signal_type = "OB_Bullish"
                    /\ xs[k].price = Price(Row(frame, i).low)
          /\ BearishBlockAt(frame, i, p) <=>
                \E k \in SignalsAt(xs, frame, i) :
                    /\ xs[k].signal_type = "OB_Bearish"
                    /\ xs[k].price = Price(Row(frame, i).high)
    /\ \A k \in 1..Len(xs) :
          \E i \in ob_window..(Len(frame) - confirmation_candles - 1) :
              k \in SignalsAt(xs, frame, i)

\* C17 as stated: the rule holds for the signals of every frame.
BlocksIffConditions ==
    BlocksCalled => BlocksFollowRule(out.result.signals, df, pair)

\* C17, amended: the rule holds for the signals of every frame of at least
\* ob_min_candles candles; a shorter frame gives no signal.
BlocksIffConditionsFromTenCandles ==
    BlocksCalled =>
        IF Len(df) >= ob_min_candles
        THEN BlocksFollowRule(out.result.signals, df, pair)
        ELSE out.result.signals = <<>>

\* C17's case: a frame of at least ob_min_candles candles with a block of each
\* direction that was returned, the first of them more than max_age_hours
\* before the last candle and one of them with a move of exactly
\* min_size_pips
BlocksOnThreshold ==
    /\ BlocksCalled
    /\ Len(df) >= ob_min_candles
    /\ \E i, j \in ob_window..(Len(df) - confirmation_candles - 1) :
          /\ BullishBlockAt(df, i, pair)
          /\ MaxHigh(ConfirmationOf(df, i)) - Row(df, i).high
                = min_size_pips * PipUnits(pair)
          /\ BearishBlockAt(df, j, pair)
          /\ LastTime(df) - Row(df, MinInt(i, j)).datetime > max_age_hours
          /\ SignalsAt(out.result.signals, df, i) # {}
          /\ SignalsAt(out.result.signals, df, j) # {}

\* a red candle followed by a move up of less than min_size_pips gave no
\* signal
BlockBelowThresholdSkipped ==
    /\ BlocksCalled
    /\ Len(df) >= ob_min_candles
    /\ \E l \in ob_window..(Len(df) - confirmation_candles - 1) :
          /\ Row(df, l).close < Row(df, l).open
          /\ MaxHigh(ConfirmationOf(df, l)) - Row(df, l).high > 0
          /\ ~BullishBlockAt(df, l, pair)
          /\ SignalsAt(out.result.signals, df, l) = {}

\* a frame of fewer than ob_min_candles candles with a block at a candle
\* i >= ob_window gave no signal
ShortFrameWithBlock ==
    /\ BlocksCalled
    /\ Len(df) < ob_min_candles
    /\ \E i \in ob_window..(Len(df) - confirmation_candles - 1) :
          BullishBlockAt(df, i, pair) \/ BearishBlockAt(df, i, pair)
    /\ out.result.signals = <<>>

StructureCalled == out.op = "identify_structure_shifts" /\ ~out.result.raised

\* the positions i >= 2 (from 0) of the swing points that carry the timestamp
\* of a signal
SwingOfSignal(swings, s) ==
    {i \in 2..(Len(swings) - 1) : Row(swings, i).timestamp = s.timestamp}

\* swing i breaks the swing two before it upwards by at least min_break_pips
BreaksUp(swings, i, p) ==
    Row(swings, i).price - Row(swings, i - 2).price >= min_break_pips * PipUnits(p)

\* swing i breaks the swing two before it downwards by at least min_break_pips
BreaksDown(swings, i, p) ==
    Row(swings, i - 2).price - Row(swings, i).price >= min_break_pips * PipUnits(p)

\* C18: an MSS_Bullish is returned at swing i >= 2 only when swings i and i-2
\* are highs, swing i-1 between them is a low and the price of swing i is at
\* least min_break_pips above that of swing i-2; an MSS_Bearish only when
\* swings i and i-2 are lows, swing i-1 is a high and the price of swing i is
\* at least min_break_pips below that of swing i-2.
MssOnlyAcrossOppositeSwing ==
    StructureCalled =>
      LET xs == out.result.signals
          swings == out.arg
      IN  \A k \in 1..Len(xs) :
            /\ xs[k].signal_type = "MSS_Bullish" =>
                  \E i \in SwingOfSignal(swings, xs[k]) :
                      /\ IsHigh(Row(swings, i)) /\ IsHigh(Row(swings, i - 2))
                      /\ IsLow(Row(swings, i - 1))
                      /\ BreaksUp(swings, i, pair)
            /\ xs[k].signal_type = "MSS_Bearish" =>
                  \E i \in SwingOfSignal(swings, xs[k]) :
                      /\ IsLow(Row(swings, i)) /\ IsLow(Row(swings, i - 2))
                      /\ IsHigh(Row(swings, i - 1))
                      /\ BreaksDown(swings, i, pair)

\* the same with the swing between the two left open: an MSS is returned at
\* swing i only when swings i and i-2 have its type and the break is at least
\* min_break_pips
MssOnlyOnBreak ==
    StructureCalled =>
      LET xs == out.result.signals
          swings == out.arg
      IN  \A k \in 1..Len(xs) :
            /\ xs[k].signal_type = "MSS_Bullish" =>
                  \E i \in SwingOfSignal(swings, xs[k]) :
                      /\ IsHigh(Row(swings, i)) /\ IsHigh(Row(swings, i - 2))
                      /\ BreaksUp(swings, i, pair)
            /\ xs[k].signal_type = "MSS_Bearish" =>
                  \E i \in SwingOfSignal(swings, xs[k]) :
                      /\ IsLow(Row(swings, i)) /\ IsLow(Row(swings, i - 2))
                      /\ BreaksDown(swings, i, pair)

\* an MSS of each direction was returned across a swing of the other type
MssAcrossOppositeSwing ==
    /\ StructureCalled
    /\ \E k, m \in 1..Len(out.result.signals) :
          /\ out.result.signals[k].signal_type = "MSS_Bullish"
          /\ \E i \in SwingOfSignal(out.arg, out.result.signals[k]) :
                IsLow(Row(out.arg, i - 1))
          /\ out.result.signals[m].signal_type = "MSS_Bearish"
          /\ \E i \in SwingOfSignal(out.arg, out.result.signals[m]) :
                IsHigh(Row(out.arg, i - 1))

\* an MSS_Bullish was returned at a swing high whose two predecessors are
\* highs as well
MssAcrossSameSwing ==
    /\ StructureCalled
    /\ \E k \in 1..Len(out.result.signals) :
          /\ out.result.signals[k].signal_type = "MSS_Bullish"
          /\ \E i \in SwingOfSignal(out.arg, out.result.signals[k]) :
                IsHigh(Row(out.arg, i - 1)) /\ IsHigh(Row(out.arg, i - 2))

\* the swings i-width+1 .. i of a list, fewer at its start
RecentSwings(swings, i, width) == Slice(swings, MaxInt(0, i - width + 1), i + 1)

\* the positions in a list of the swings of a type
PositionsOf(window, type) == {k \in 1..Len(window) : window[k].type = type}

\* the greatest of a non-empty set of numbers
MaxOf(S) == CHOOSE x \in S : \A y \in S : y <= x

\* among the swings of the window the most recent low is below the low before
\* it and comes after the most recent high, and that high is at least
\* min_break_pips above the low before
BullishChochIn(window, p) ==
    LET lows == PositionsOf(window, "low")
        highs == PositionsOf(window, "high")
    IN  /\ Len(window) >= 4
        /\ Cardinality(lows) >= 2 /\ highs # {}
        /\ LET last_low == MaxOf(lows)
               prev_low == MaxOf(lows \ {last_low})
               last_high == MaxOf(highs)
           IN  /\ window[last_low].price < window[prev_low].price
               /\ last_low > last_high
               /\ window[last_high].price - window[prev_low].price
                     >= min_break_pips * PipUnits(p)

\* the mirror: the most recent high is above the high before it and comes
\* after the most recent low, and the high before is at least min_break_pips
\* above that low
BearishChochIn(window, p) ==
    LET lows == PositionsOf(window, "low")
        highs == PositionsOf(window, "high")
    IN  /\ Len(window) >= 4
        /\ Cardinality(highs) >= 2 /\ lows # {}
        /\ LET last_high == MaxOf(highs)
               prev_high == MaxOf(highs \ {last_high})
               last_low == MaxOf(lows)
           IN  /\ window[last_high].price > window[prev_high].price
               /\ last_high > last_low
               /\ window[prev_high].price - window[last_low].price
                     >= min_break_pips * PipUnits(p)

\* the signals of a type that carry the timestamp of swing i
ChochAt(xs, kind, swings, i) ==
    {k \in 1..Len(xs) :
        xs[k].signal_type = kind /\ xs[k].timestamp = Row(swings, i).timestamp}

\* a ChoCh is returned at every swing i >= 2 exactly when the last width
\* swings up to i meet its conditions, and has the strength choch_strength
ChochDecidedOn(width) ==
    StructureCalled =>
      LET xs == out.result.signals
          swings == out.arg
      IN  /\ \A i \in 2..(Len(swings) - 1) :
                /\ ChochAt(xs, "ChoCh_Bullish", swings, i) # {}
                     <=> BullishChochIn(RecentSwings(swings, i, width), pair)
                /\ ChochAt(xs, "ChoCh_Bearish", swings, i) # {}
                     <=> BearishChochIn(RecentSwings(swings, i, width), pair)
          /\ \A k \in 1..Len(xs) :
                xs[k].signal_type \in {"ChoCh_Bullish", "ChoCh_Bearish"} =>
                    xs[k].strength = RInt(choch_strength)

\* C19: a ChoCh is decided on the 4 most recent swings i-3..i: ChoCh_Bullish is
\* returned at swing i exactly when among those 4 the most recent low is below
\* the low before it, comes after the most recent high, and that high is at
\* least min_break_pips above the low before; ChoCh_Bearish is the mirror on
\* highs; the strength of a ChoCh is 70; swings older than i-3 have no
\* influence.
ChochDecidedOnFourSwings == ChochDecidedOn(4)

\* the same on the 5 most recent swings i-4..i
ChochDecidedOnFiveSwings == ChochDecidedOn(5)

\* a ChoCh of each direction was returned
ChochOfEachDirection ==
    /\ StructureCalled
    /\ \E k, m \in 1..Len(out.result.signals) :
          /\ out.result.signals[k].signal_type = "ChoCh_Bullish"
          /\ out.result.signals[m].signal_type = "ChoCh_Bearish"

\* a ChoCh_Bullish was returned at a swing whose 4 most recent swings hold one
\* low only
ChochFromFifthSwing ==
    /\ StructureCalled
    /\ \E i \in 4..(Len(out.arg) - 1) :
          /\ ChochAt(out.result.signals, "ChoCh_Bullish", out.arg, i) # {}
          /\ Cardinality(PositionsOf(RecentSwings(out.arg, i, 4), "low")) = 1

LevelsCalled == out.op = "_find_equal_levels" /\ ~out.result.raised

\* the point at position j of the list is within equal_level_tolerance times
\* the price of the point at position a of that point
NearLevel(points, a, j) ==
    equal_level_tolerance_den * Abs(points[a].price - points[j].price)
        <= equal_level_tolerance_num * points[a].price

\* the positions of the anchors of a greedy pass over the list: a point is an
\* anchor when it is near no anchor before it
LevelAnchors(points) ==
    LET anchor[i \in 1..Len(points)] ==
            \A a \in 1..(i - 1) : anchor[a] => ~NearLevel(points, a, i)
    IN  {i \in 1..Len(points) : anchor[i]}

\* the anchor a point joins: the earliest it is near, itself if it is one
AnchorOf(points, j) ==
    CHOOSE a \in LevelAnchors(points) :
        /\ a = j \/ (a < j /\ NearLevel(points, a, j))
        /\ \A b \in LevelAnchors(points) :
              (b = j \/ (b < j /\ NearLevel(points, b, j))) => a <= b

\* the positions of the points that join the anchor a, the anchor among them
LevelMembers(points, a) == {j \in 1..Len(points) : AnchorOf(points, j) = a}

\* the indices of the points of a group
IndicesOf(group) == {group[k].index : k \in 1..Len(group)}

\* C20: the groups _find_equal_levels returns are those of one greedy pass in
\* swing order: no point is in two groups; the first point of a group is an
\* anchor, the earliest point that no earlier anchor has taken, and every other
\* member is within equal_level_tolerance times the anchor's price of it; a
\* point is in the group of the earliest anchor it is near; the groups are
\* those of the anchors joined by at least one other point, in the order of
\* the anchors; so the highs 1.1000, 1.1001, 1.1050, 1.1051 give exactly two
\* groups of two.
EqualLevelsAreGreedyGroups ==
    LevelsCalled =>
      LET points == out.arg
          groups == out.result.groups
          big == {a \in LevelAnchors(points) :
                      Cardinality(LevelMembers(points, a)) >= 2}
      IN  /\ \A g, h \in 1..Len(groups) :
                g # h => IndicesOf(groups[g]) \cap IndicesOf(groups[h]) = {}
          /\ \A g \in 1..Len(groups) :
                /\ Len(groups[g]) >= 2
                /\ Cardinality(IndicesOf(groups[g])) = Len(groups[g])
                /\ \E a \in big :
                      /\ groups[g][1] = points[a]
                      /\ Cardinality({b \in big : b < a}) = g - 1
                      /\ {groups[g][k] : k \in 1..Len(groups[g])}
                            = {points[j] : j \in LevelMembers(points, a)}
                      /\ \A k \in 2..Len(groups[g]) :
                            equal_level_tolerance_den
                                * Abs(groups[g][k].price - points[a].price)
                              <= equal_level_tolerance_num * points[a].price
          /\ Len(groups) = Cardinality(big)
          /\ [k \in 1..Len(points) |-> points[k].price]
                = <<11000, 11001, 11050, 11051>>
             => Len(groups) = 2 /\ Len(groups[1]) = 2 /\ Len(groups[2]) = 2

\* C20's case: the third point of the list is near both the first and the
\* second, which are anchors, and is in the group of the first, exactly on the
\* tolerance; the second anchor has a group with the fourth point
JoinedEarliestAnchor ==
    /\ LevelsCalled
    /\ Len(out.arg) = 4
    /\ LevelAnchors(out.arg) = {1, 2}
    /\ NearLevel(out.arg, 1, 3) /\ NearLevel(out.arg, 2, 3)
    /\ equal_level_tolerance_den * Abs(out.arg[1].price - out.arg[3].price)
          = equal_level_tolerance_num * out.arg[1].price
    /\ Len(out.result.groups) = 2
    /\ out.result.groups[1] = <<out.arg[1], out.arg[3]>>
    /\ out.result.groups[2] = <<out.arg[2], out.arg[4]>>

\* _find_equal_levels was called on the four highs of the example
ExampleLevelsGrouped ==
    /\ LevelsCalled
    /\ [k \in 1..Len(out.arg) |-> out.arg[k].price] = <<11000, 11001, 11050, 11051>>
    /\ Len(out.result.groups) = 2

(***************************************************************************)
(* Properties of identify_liquidity_zones.                                 *)
(***************************************************************************)
ZonesCalled == out.op = "identify_liquidity_zones" /\ ~out.result.raised

\* the clusters of the swing points of one type that the detector found on
\* the frame
ClustersOfType(swing_points, type) ==
    LET same(s) == s.type = type
    IN  _find_equal_levels(Comprehension(swing_points, same)).groups

\* min(100, 25 * k)
CappedTouches(k) == IF 25 * k > 100 THEN RInt(100) ELSE RInt(25 * k)

\* the signal is the one of the cluster: its kind and direction are those of
\* the cluster's type, its strength counts the points, and the cluster has at
\* least two points, all of that type
SignalOfCluster(signal, cluster, type) ==
    /\ Len(cluster) >= 2
    /\ \A k \in 1..Len(cluster) : cluster[k].type = type
    /\ signal.signal_type = (IF type = "high" THEN "Liquidity_EqualHighs"
                             ELSE "Liquidity_EqualLows")
    /\ signal.direction = (IF type = "high" THEN "bearish" ELSE "bullish")
    /\ signal.strength = CappedTouches(Len(cluster))

\* the signals are those of the clusters of highs, then of the clusters of
\* lows, one each
SignalsOfClusters(sigs, high_clusters, low_clusters) ==
    /\ Len(sigs) = Len(high_clusters) + Len(low_clusters)
    /\ \A g \in 1..Len(high_clusters) :
          SignalOfCluster(sigs[g], high_clusters[g], "high")
    /\ \A g \in 1..Len(low_clusters) :
          SignalOfCluster(sigs[Len(high_clusters) + g], low_clusters[g], "low")

\* C21: identify_liquidity_zones emits exactly one signal per cluster of
\* k >= 2 swing points and none for a point alone: Liquidity_EqualHighs,
\* bearish, for a cluster of swing highs and Liquidity_EqualLows, bullish, for
\* a cluster of swing lows, each of strength min(100, 25 * k); no cluster has
\* both highs and lows.
OneZonePerCluster ==
    ZonesCalled =>
        SignalsOfClusters(out.result.signals, ClustersOfType(out.arg, "high"),
                          ClustersOfType(out.arg, "low"))

\* C21's case: the frame has a cluster of two swing lows, with a signal of
\* strength 50, and a cluster of more than four swing highs, with a signal of
\* strength 100, and a swing point that is in no cluster
ZonesOfHighsAndLows ==
    /\ ZonesCalled
    /\ \E g \in 1..Len(ClustersOfType(out.arg, "low")) :
          Len(ClustersOfType(out.arg, "low")[g]) = 2
    /\ \E g \in 1..Len(ClustersOfType(out.arg, "high")) :
          Len(ClustersOfType(out.arg, "high")[g]) > 4
    /\ \E k \in 1..Len(out.result.signals) :
          /\ out.result.signals[k].signal_type = "Liquidity_EqualLows"
          /\ out.result.signals[k].strength = RInt(50)
    /\ \E k \in 1..Len(out.result.signals) :
          /\ out.result.signals[k].signal_type = "Liquidity_EqualHighs"
          /\ out.result.signals[k].strength = RInt(100)
    /\ \E j \in 1..Len(out.arg) :
          \A g \in 1..Len(ClustersOfType(out.arg, out.arg[j].type)) :
              \A k \in 1..Len(ClustersOfType(out.arg, out.arg[j].type)[g]) :
                  ClustersOfType(out.arg, out.arg[j].type)[g][k] # out.arg[j]

\* a cluster of three swing points has a signal of strength 75
ZoneOfThreeTouches ==
    /\ ZonesCalled
    /\ \E k \in 1..Len(out.result.signals) :
          out.result.signals[k].strength = RInt(75)

(***************************************************************************)
(* Properties of the detectors on series too short for them.               *)
(***************************************************************************)
\* the detector op was called on a series of fewer than minimum candles
CalledOnFewerThan(op, minimum) == out.op = op /\ Len(out.arg) < minimum

\* identify_structure_shifts was called on a series with fewer than
\* min_swing_points swing points
CalledOnFewSwings ==
    /\ out.op = "identify_structure_shifts"
    /\ Len(_identify_swing_points(out.arg, swing_window)) < min_swing_points

\* C22: a series shorter than a detector's minimum yields an empty list and
\* no error: fewer than 3 candles for identify_fvgs, fewer than 10 for
\* identify_order_blocks, fewer than 2 * lookback_period candles or fewer
\* than 4 swing points for identify_structure_shifts, fewer than 20 candles
\* for identify_liquidity_zones and fewer than 2 * window + 1 candles for
\* _identify_swing_points; the empty series is among them.
ShortSeriesGivesNothing ==
    (\/ CalledOnFewerThan("identify_fvgs", 3)
     \/ CalledOnFewerThan("identify_order_blocks", 10)
     \/ CalledOnFewerThan("identify_structure_shifts", 2 * lookback_period)
     \/ CalledOnFewSwings
     \/ CalledOnFewerThan("identify_liquidity_zones", 20)
     \/ CalledOnFewerThan("_identify_swing_points", 2 * swing_window + 1))
    => out.result = [raised |-> FALSE, signals |-> <<>>]

\* C22's case: identify_liquidity_zones returned nothing on 19 candles that
\* have equal swing highs
NineteenCandlesWithEqualHighs ==
    /\ CalledOnFewerThan("identify_liquidity_zones", 20)
    /\ Len(out.arg) = 19
    /\ ClustersOfType(_identify_swing_points(out.arg, swing_window), "high") # <<>>
    /\ out.result = [raised |-> FALSE, signals |-> <<>>]

\* a detector returned nothing on the empty series
EmptySeriesGivesNothing ==
    /\ CalledOnFewerThan("identify_fvgs", 3)
    /\ out.arg = <<>>
    /\ out.result.signals = <<>>

\* identify_structure_shifts returned nothing on 2 * lookback_period candles
\* with three swing points
FortyCandlesWithThreeSwings ==
    /\ CalledOnFewSwings
    /\ Len(out.arg) = 2 * lookback_period
    /\ Len(_identify_swing_points(out.arg, swing_window)) = 3
    /\ out.result.signals = <<>>

\* a detector returned nothing on a short series whose newest candle has no
\* datetime
ShortMalformedSeriesGivesNothing ==
    /\ CalledOnFewerThan("identify_order_blocks", 10)
    /\ Len(out.arg) = 9
    /\ out.arg[8].datetime = NotATime
    /\ out.result = [raised |-> FALSE, signals |-> <<>>]

(***************************************************************************)
(* Properties of the scans on frames with malformed rows.                  *)
(***************************************************************************)
\* the list of the third components of the triples <<i, k, x>> of a set, in
\* the order of i and then of k
Ranked(triples) ==
    Placed({<<Cardinality({a \in triples :
                              a[1] < e[1] \/ (a[1] = e[1] /\ a[2] <= e[2])}),
              e[3]>> : e \in triples})

\* the lists of a set of pairs <<i, list>>, one after the other in the order
\* of i
Joined(parts) ==
    Ranked(UNION {{<<p[1], k, p[2][k]>> : k \in 1..Len(p[2])} : p \in parts})

\* what a scan over first .. last - 1 gathers when an index that raises is
\* an index that appends nothing: the signals of the other indices, in the
\* order of the indices
SignalsOfOtherIndices(first, last, Step(_)) ==
    Joined({<<i, IF Step(i).kind = "raise" THEN <<>> ELSE Step(i).signals>> :
                i \in first..(last - 1)})

\* the indices of a scan over first .. last - 1 that raise
RaisingIndices(first, last, Step(_)) ==
    {i \in first..(last - 1) : Step(i).kind = "raise"}

\* what identify_fvgs returns on the frame when its scan skips the indices
\* that raise
FvgsOfOtherIndices(frame, p) ==
    IF Len(frame) < 3 THEN Returned(<<>>)
    ELSE FvgAgeFilter(SignalsOfOtherIndices(2, Len(frame),
                                            LAMBDA i : FvgStep(frame, i, p)),
                      Row(frame, Len(frame) - 1).datetime)

BlocksOfOtherIndices(frame, p) ==
    IF Len(frame) < ob_min_candles THEN Returned(<<>>)
    ELSE Returned(SignalsOfOtherIndices(ob_window,
                                        Len(frame) - confirmation_candles,
                                        LAMBDA i : ObStep(frame, i, p)))

SwingsOfOtherIndices(frame) ==
    Returned(SignalsOfOtherIndices(swing_window, Len(frame) - swing_window,
                                   LAMBDA i : SwingStep(frame, i, swing_window)))

ShiftsOfSwings(swing_points, pip) ==
    IF Len(swing_points) < min_swing_points THEN Returned(<<>>)
    ELSE Returned(SignalsOfOtherIndices(2, Len(swing_points),
                      LAMBDA i : StructureStep(swing_points, i, pip)))

ShiftsOfOtherIndices(frame, p) ==
    IF Len(frame) < lookback_period * 2 THEN Returned(<<>>)
    ELSE ShiftsOfSwings(_identify_swing_points(frame, swing_window), pip_value(p))

\* C23: in the scans of identify_fvgs, identify_order_blocks,
\* _identify_swing_points and identify_structure_shifts an exception raised
\* at index i skips index i only: the scan goes on with index i + 1, and what
\* the call returns is what the other indices produce, as if index i had
\* produced no signal.
RaisingIndexSkippedAlone ==
    /\ out.op = "identify_fvgs" => out.result = FvgsOfOtherIndices(out.arg, pair)
    /\ out.op = "identify_order_blocks" =>
          out.result = BlocksOfOtherIndices(out.arg, pair)
    /\ out.op = "_identify_swing_points" =>
          out.result = SwingsOfOtherIndices(out.arg)
    /\ out.op = "identify_structure_shifts" =>
          out.result = ShiftsOfOtherIndices(out.arg, pair)

\* C23's case: an index of the scan of identify_order_blocks raises, a
\* later index produces a signal, and the signal is returned
BlockAfterRaisingIndex ==
    /\ out.op = "identify_order_blocks"
    /\ Len(out.arg) >= ob_min_candles
    /\ \E i \in RaisingIndices(ob_window, Len(out.arg) - confirmation_candles,
                               LAMBDA n : ObStep(out.arg, n, pair)) :
          \E k \in 1..Len(out.result.signals) :
              out.result.signals[k].timestamp > out.arg[i + 1].datetime

\* an index of the scan of identify_fvgs raises and a later index produces
\* a gap that is returned
GapAfterRaisingIndex ==
    /\ out.op = "identify_fvgs"
    /\ Len(out.arg) >= 3
    /\ \E i \in RaisingIndices(2, Len(out.arg),
                               LAMBDA n : FvgStep(out.arg, n, pair)) :
          \E k \in 1..Len(out.result.signals) :
              out.result.signals[k].timestamp > out.arg[i + 1].datetime

\* indices of the scan of _identify_swing_points raise and a swing point
\* after them is returned
SwingAfterRaisingIndex ==
    /\ out.op = "_identify_swing_points"
    /\ \E i \in RaisingIndices(swing_window, Len(out.arg) - swing_window,
                               LAMBDA n : SwingStep(out.arg, n, swing_window)) :
          \E k \in 1..Len(out.result.signals) : out.result.signals[k].index > i

\* identify_structure_shifts returns signals on a frame with a malformed row
ShiftsOnBrokenFrame ==
    /\ out.op = "identify_structure_shifts"
    /\ BrokenRows(out.arg) # {}
    /\ out.result.signals # <<>>

\* no index of the scan of identify_structure_shifts raises on the swing
\* points of a frame
NoSwingOfStructureRaises ==
    out.op = "identify_structure_shifts" /\ Len(out.arg) >= lookback_period * 2 =>
        RaisingIndices(2, Len(_identify_swing_points(out.arg, swing_window)),
            LAMBDA i : StructureStep(_identify_swing_points(out.arg, swing_window),
                                     i, pip_value(pair))) = {}

(***************************************************************************)
(* Properties of the detectors on frames with a malformed row.             *)
(***************************************************************************)
DetectorOps ==
    {"identify_fvgs", "identify_order_blocks", "identify_structure_shifts",
     "identify_liquidity_zones"}

\* C24: no call of identify_fvgs, identify_order_blocks,
\* identify_structure_shifts or identify_liquidity_zones raises to its
\* caller, whichever rows of the frame are malformed, the last row whose
\* datetime identify_fvgs reads after its loop included: the call returns a
\* list of signals.
DetectorCallsNeverRaise ==
    out.op \in DetectorOps => ~out.result.raised

\* identify_fvgs raises after its loop: the datetime of the last row is no
\* datetime, the datetimes of the other rows are, and the loop has found a
\* gap
FvgsRaiseOnLastDatetime ==
    /\ out.op = "identify_fvgs"
    /\ out.result.raised
    /\ out.arg[Len(out.arg)].datetime = NotATime
    /\ \A k \in 1..(Len(out.arg) - 1) : out.arg[k].datetime # NotATime
    /\ BrokenRows(out.arg) = {}

\* identify_liquidity_zones raises: a swing point of a group of equal levels
\* has a timestamp that is no datetime
ZonesRaiseOnSwingDatetime ==
    /\ out.op = "identify_liquidity_zones"
    /\ out.result.raised
    /\ \E k \in 1..Len(out.arg) : out.arg[k].timestamp = NotATime

\* identify_order_blocks and identify_structure_shifts return on every
\* frame, and so does every detector on a frame whose datetimes are all
\* datetimes
CallsThatReturn ==
    /\ out.op \in {"identify_order_blocks", "identify_structure_shifts"} =>
          ~out.result.raised
    /\ out.op \in DetectorOps /\ ~HasMalformedDatetime(df) => ~out.result.raised

\* a detector returns signals on a frame with a malformed datetime
SignalsDespiteMalformedDatetime ==
    /\ out.op \in DetectorOps
    /\ HasMalformedDatetime(df)
    /\ ~out.result.raised
    /\ out.result.signals # <<>>

(***************************************************************************)
(* Properties of the operations of the analyzer on the caller's objects.   *)
(***************************************************************************)
EffectOps ==
    {"analyze", "get_market_bias", "filter_signals_by_strength",
     "get_confluence_signals"}

\* every element of the list xs is an element of the list ys, field by field
AllTakenFrom(xs, ys) ==
    \A k \in 1..Len(xs) : \E j \in 1..Len(ys) : ys[j] = xs[k]

\* the lists of the four kinds that analyze hands back are the lists the
\* detectors return on the frame, in the detectors' order
KindListsAsReturned(value, frame, p) ==
    /\ value.fair_value_gaps = identify_fvgs(frame, p).signals
    /\ value.order_blocks = identify_order_blocks(frame, p).signals
    /\ value.market_structure = identify_structure_shifts(frame, p).signals
    /\ value.liquidity_zones = identify_liquidity_zones(frame, p).signals

ConfluenceOfSomeSignals ==
    /\ out.op = "get_confluence_signals"
    /\ Len(out.result) >= 1
    /\ Len(out.result[1].signals) < Len(signals)

\* filter_signals_by_strength hands back a shorter list
FilterDropsSignals ==
    /\ out.op = "filter_signals_by_strength"
    /\ out.result # <<>>
    /\ Len(out.result) < Len(signals)

(***************************************************************************)
(* Properties of two calls of analyze that run at the same time.           *)
(***************************************************************************)
\* the two calls run or have run
PairCalled == out.op = "analyze" /\ Len(out.result) = 2 /\ Len(out.arg) = 2

\* C26: when two calls of analyze on one SmartMoneyAnalyzer, with different
\* series, run with their detector steps in any order, each call returns
\* the dictionary analyze returns for its series when it runs alone; the
\* signals of the other call's series do not enter it.
EachCallAsAlone ==
    PairCalled =>
        \A i \in 1..2 :
            out.result[i].pc = 6 =>
                results[out.result[i].place] = analyze(out.arg[i], pair)

\* C26's case: both calls have returned, the call on the shorter series
\* first, with different signals
BothCallsReturned ==
    /\ PairCalled
    /\ out.result[1].pc = 6 /\ out.result[2].pc = 6
    /\ out.result[2].place = 1
    /\ results[1].all_signals # <<>>
    /\ results[2].all_signals # <<>>
    /\ results[1].all_signals # results[2].all_signals

\* both calls are between two detector steps, each with signals of its own
CallsBetweenSteps ==
    /\ PairCalled
    /\ out.result[1].pc = 2 /\ out.result[2].pc = 1
    /\ out.result[1].results.fair_value_gaps # out.result[2].results.fair_value_gaps
    /\ out.result[1].results.order_blocks # <<>>

\* one call ends on an exception of its first detector while the other
\* returns signals
OneCallRaises ==
    /\ PairCalled
    /\ out.result[1].pc = 6 /\ out.result[2].pc = 6
    /\ identify_fvgs(out.arg[1], pair).raised
    /\ results[out.result[2].place].all_signals # <<>>

(***************************************************************************)
(* Properties of the strength scores on zero denominators.                 *)
(***************************************************************************)
\* the context is long enough for its mean volume to be used, and the mean
\* is 0
ZeroMeanVolume(context) == Len(context) > 5 /\ SumVolume(context) = 0

\* the candle has no range
NoRange(candle) == candle.high = candle.low

\* a gap score with the given sub-scores of the impulse and of the volume
FvgScoreWith(arg, impulse, volume) ==
    Clamp(RSum(<<gap_strength(arg.gap_pips), impulse, volume,
                 context_strength(arg.context)>>))

\* an order-block score with the given sub-scores of the volume and of the
\* body
ObScoreWith(arg, volume, quality) ==
    LET move == _calculate_confirmation_move(arg.future_candles, arg.direction)
    IN  Clamp(RSum(<<move_strength(move),
                     speed_strength(move, arg.future_candles), volume,
                     quality>>))

\* C27: in the strength scores of gaps and order blocks a zero denominator
\* gives the sub-score its fallback: a mean volume of 0 over the context
\* makes the relative-volume sub-score 15, an order-block candle whose high
\* is its low has a body-quality sub-score of 10, and an impulse candle
\* whose high is its low has an impulse sub-score of 0.
ZeroDenominatorFallbacks ==
    /\ out.op = "_calculate_fvg_strength" /\ ZeroMeanVolume(out.arg.context) =>
          out.result = FvgScoreWith(out.arg, impulse_strength(out.arg.candle),
                                    RInt(15))
    /\ out.op = "_calculate_ob_strength" /\ ZeroMeanVolume(out.arg.context) =>
          out.result = ObScoreWith(out.arg, RInt(15),
                                   quality_strength(out.arg.candle))
    /\ out.op = "_calculate_ob_strength" /\ NoRange(out.arg.candle) =>
          out.result = ObScoreWith(out.arg,
                           volume_strength(out.arg.candle, out.arg.context),
                           RInt(10))
    /\ out.op = "_calculate_fvg_strength" /\ NoRange(out.arg.candle) =>
          out.result = FvgScoreWith(out.arg, RInt(0),
                           volume_strength(out.arg.candle, out.arg.context))

\* what the code does: a mean volume of 0 adds nothing to either score,
\* and the candles without range get 10 for the body of an order block and
\* nothing for an impulse
ZeroMeanVolumeAddsNothing ==
    /\ out.op = "_calculate_fvg_strength" /\ ZeroMeanVolume(out.arg.context) =>
          out.result = FvgScoreWith(out.arg, impulse_strength(out.arg.candle),
                                    RInt(0))
    /\ out.op = "_calculate_ob_strength" /\ ZeroMeanVolume(out.arg.context) =>
          out.result = ObScoreWith(out.arg, RInt(0),
                                   quality_strength(out.arg.candle))
    /\ out.op = "_calculate_ob_strength" /\ NoRange(out.arg.candle) =>
          out.result = ObScoreWith(out.arg,
                           volume_strength(out.arg.candle, out.arg.context),
                           RInt(10))
    /\ out.op = "_calculate_fvg_strength" /\ NoRange(out.arg.candle) =>
          out.result = FvgScoreWith(out.arg, RInt(0),
                           volume_strength(out.arg.candle, out.arg.context))

\* a gap is scored on a context of six candles whose volumes are all 0
GapScoredOnZeroMeanVolume ==
    /\ out.op = "_calculate_fvg_strength"
    /\ ZeroMeanVolume(out.arg.context)
    /\ out.arg.candle.volume > 0

\* an order-block candle without range is scored on a context with volume
BlockWithoutRangeScored ==
    /\ out.op = "_calculate_ob_strength"
    /\ NoRange(out.arg.candle)
    /\ Len(out.arg.context) > 5
    /\ SumVolume(out.arg.context) > 0

(***************************************************************************)
(* Properties of the strength of the MSS signals.                          *)
(***************************************************************************)
IsMss(s) == s.signal_type \in {"MSS_Bullish", "MSS_Bearish"}

\* the swings handed to _calculate_structure_strength at swing i (from 0)
MssContext(swings, i) == Slice(swings, MaxInt(0, i - 3), i + 1)

\* the swings of a context whose prices are compared for an MSS: the lows
\* for a bullish one, the highs for a bearish one
RelevantSwings(context, s) ==
    IF s.signal_type = "MSS_Bullish" THEN Comprehension(context, IsLow)
    ELSE Comprehension(context, IsHigh)

\* the strength of an MSS whose trend-consistency sub-score is 40 on
\* non-decreasing relevant swings and 20 otherwise
StrengthOnTwoValues(context, s) ==
    Clamp(RSum(<<IF NonDecreasing(RelevantSwings(context, s)) THEN RInt(40)
                 ELSE RInt(20),
                 magnitude_strength(context),
                 IF Len(context) >= 3 THEN RInt(30) ELSE RInt(0)>>))

\* C28: the trend-consistency sub-score of every MSS returned is 40 when
\* the relevant swings of its context (the lows for a bullish MSS, the highs
\* for a bearish one) do not decrease in price and 20 otherwise, never 0,
\* and with the 30 of the temporal sub-score the strength of every MSS is
\* at least 50.
MssTrendScoreIsFortyOrTwenty ==
    StructureCalled =>
        \A k \in 1..Len(out.result.signals) :
            LET s == out.result.signals[k]
            IN  IsMss(s) =>
                  /\ RLe(RInt(50), s.strength)
                  /\ \E i \in SwingOfSignal(out.arg, s) :
                        s.strength = StrengthOnTwoValues(MssContext(out.arg, i), s)

\* the strength of every MSS returned is at least 50
MssStrengthAtLeastFifty ==
    StructureCalled =>
        \A k \in 1..Len(out.result.signals) :
            IsMss(out.result.signals[k]) =>
                RLe(RInt(50), out.result.signals[k].strength)

\* an MSS is returned whose context holds fewer than two relevant swings
MssOnOneRelevantSwing ==
    /\ StructureCalled
    /\ \E k \in 1..Len(out.result.signals) :
          LET s == out.result.signals[k]
          IN  /\ IsMss(s)
              /\ \A i \in SwingOfSignal(out.arg, s) :
                    Len(RelevantSwings(MssContext(out.arg, i), s)) < 2

\* with two relevant swings or more in its context the strength of an MSS
\* is the one of the claim
MssOnTwoRelevantSwings ==
    StructureCalled =>
        \A k \in 1..Len(out.result.signals) :
            LET s == out.result.signals[k]
            IN  IsMss(s) =>
                  \E i \in SwingOfSignal(out.arg, s) :
                      \/ Len(RelevantSwings(MssContext(out.arg, i), s)) < 2
                      \/ s.strength = StrengthOnTwoValues(MssContext(out.arg, i), s)

\* an MSS is returned whose context holds two relevant swings
MssWithTwoRelevantSwings ==
    /\ StructureCalled
    /\ \E k \in 1..Len(out.result.signals) :
          LET s == out.result.signals[k]
          IN  /\ IsMss(s)
              /\ \E i \in SwingOfSignal(out.arg, s) :
                    Len(RelevantSwings(MssContext(out.arg, i), s)) >= 2

(***************************************************************************)
(* Properties of the MSS and ChoCh signals of one swing.                   *)
(***************************************************************************)
\* the result holds a signal of the type with the timestamp of swing i
SignalAtSwing(type, i) ==
    \E k \in 1..Len(out.result.signals) :
        /\ out.result.signals[k].signal_type = type
        /\ out.result.signals[k].timestamp = Row(out.arg, i).timestamp

\* C29: identify_structure_shifts never returns two signals of opposite
\* direction with the timestamp of one swing: for no swing i both an
\* MSS_Bearish and a ChoCh_Bullish, or both an MSS_Bullish and a
\* ChoCh_Bearish, carry the timestamp of swing i.
NoOppositeSignalsAtOneSwing ==
    StructureCalled =>
        \A i \in 0..(Len(out.arg) - 1) :
            /\ ~(SignalAtSwing("MSS_Bearish", i) /\ SignalAtSwing("ChoCh_Bullish", i))
            /\ ~(SignalAtSwing("MSS_Bullish", i) /\ SignalAtSwing("ChoCh_Bearish", i))

\* a lower low after a high gives an MSS_Bearish and a ChoCh_Bullish with
\* the timestamp of the low
BearishMssWithBullishChoch ==
    /\ StructureCalled
    /\ \E i \in 0..(Len(out.arg) - 1) :
          SignalAtSwing("MSS_Bearish", i) /\ SignalAtSwing("ChoCh_Bullish", i)

\* a higher high after a low gives an MSS_Bullish and a ChoCh_Bearish with
\* the timestamp of the high
BullishMssWithBearishChoch ==
    /\ StructureCalled
    /\ \E i \in 0..(Len(out.arg) - 1) :
          SignalAtSwing("MSS_Bullish", i) /\ SignalAtSwing("ChoCh_Bearish", i)

\* an MSS and a ChoCh of one swing never have the same direction
NoAgreeingSignalsAtOneSwing ==
    StructureCalled =>
        \A i \in 0..(Len(out.arg) - 1) :
            /\ ~(SignalAtSwing("MSS_Bearish", i) /\ SignalAtSwing("ChoCh_Bearish", i))
            /\ ~(SignalAtSwing("MSS_Bullish", i) /\ SignalAtSwing("ChoCh_Bullish", i))

(***************************************************************************)
(* Properties of the signals of one step of identify_structure_shifts.     *)
(***************************************************************************)
IsChoch(s) == s.signal_type \in {"ChoCh_Bullish", "ChoCh_Bearish"}

\* the signals of the result that are of one of the types and carry the
\* timestamp of swing i
SignalsAtSwing(types, i) ==
    {k \in 1..Len(out.result.signals) :
        /\ out.result.signals[k].signal_type \in types
        /\ out.result.signals[k].timestamp = Row(out.arg, i).timestamp}

\* the swings the ChoCh of step i is decided on
ChochWindow(swings, i) == Slice(swings, MaxInt(0, i - 4), i + 1)

\* both branches of _identify_change_of_character find a ChoCh at step i
BothChochBranches(swings, i, pip) ==
    /\ Len(ChochWindow(swings, i)) >= 4
    /\ ChochBullish(Comprehension(ChochWindow(swings, i), IsLow),
                    Comprehension(ChochWindow(swings, i), IsHigh), pip) # <<>>
    /\ ChochBearish(Comprehension(ChochWindow(swings, i), IsLow),
                    Comprehension(ChochWindow(swings, i), IsHigh), pip) # <<>>

\* the ChoCh of step i, if there is one, has the timestamp of swing i, which
\* is a low for a ChoCh_Bullish and a high for a ChoCh_Bearish
ChochOfStepAtItsSwing(swings, i, pip) ==
    LET found == _identify_change_of_character(ChochWindow(swings, i), pip)
    IN  \A n \in 1..Len(found) :
            /\ found[n].timestamp = Row(swings, i).timestamp
            /\ found[n].signal_type = "ChoCh_Bullish" => IsLow(Row(swings, i))
            /\ found[n].signal_type = "ChoCh_Bearish" => IsHigh(Row(swings, i))

\* C30: for every swing i identify_structure_shifts returns at most one MSS
\* and at most one ChoCh; a ChoCh_Bullish of step i has the timestamp of
\* swing i, which is a low, and a ChoCh_Bearish of step i has the timestamp
\* of swing i, which is a high, so that the two ChoCh conditions never hold in
\* one step.
OneMssAndOneChochPerSwing ==
    StructureCalled =>
        /\ \A i \in 0..(Len(out.arg) - 1) :
              /\ Cardinality(SignalsAtSwing({"MSS_Bullish", "MSS_Bearish"}, i)) <= 1
              /\ Cardinality(SignalsAtSwing({"ChoCh_Bullish", "ChoCh_Bearish"}, i)) <= 1
              /\ SignalsAtSwing({"ChoCh_Bullish"}, i) # {} => IsLow(Row(out.arg, i))
              /\ SignalsAtSwing({"ChoCh_Bearish"}, i) # {} => IsHigh(Row(out.arg, i))
        /\ \A k \in 1..Len(out.result.signals) :
              \E i \in 0..(Len(out.arg) - 1) :
                  out.result.signals[k].timestamp = Row(out.arg, i).timestamp
        /\ \A i \in 2..(Len(out.arg) - 1) :
              /\ ChochOfStepAtItsSwing(out.arg, i, pip_value(pair))
              /\ ~BothChochBranches(out.arg, i, pip_value(pair))

\* C30's case: the result holds a ChoCh_Bullish at a low and a ChoCh_Bearish
\* at a high, one of them at a swing that has an MSS as well
ChochOfBothDirections ==
    /\ StructureCalled
    /\ \E i, j \in 3..(Len(out.arg) - 1) :
          /\ SignalsAtSwing({"ChoCh_Bullish"}, i) # {}
          /\ SignalsAtSwing({"ChoCh_Bearish"}, j) # {}
          /\ SignalsAtSwing({"MSS_Bullish", "MSS_Bearish"}, i) # {}

\* a swing with a ChoCh and without an MSS
ChochWithoutMss ==
    /\ StructureCalled
    /\ \E i \in 3..(Len(out.arg) - 1) :
          /\ SignalsAtSwing({"ChoCh_Bullish", "ChoCh_Bearish"}, i) # {}
          /\ SignalsAtSwing({"MSS_Bullish", "MSS_Bearish"}, i) = {}
=============================================================================
